---------------------------- MODULE Spec2Model ----------------------------
(***************************************************************************)
(* Nexus_Flow producer API (server/src/api/server.ts): the HTTP handlers   *)
(* that register workflow configurations, compile triggers into queue      *)
(* entries, receive webhooks, resume paused runs and keep the saved editor *)
(* states, and the bridge that forwards worker events to the sockets.      *)
(*                                                                         *)
(* Every handler is an async function.  Node runs the code between two     *)
(* awaits without interruption, and every await in these handlers waits    *)
(* for one command of the key-value store or of the queue, so a handler is *)
(* modelled as a process whose atomic steps are "the code since the last   *)
(* reply, and the next command".  Handlers of different requests           *)
(* interleave at these steps.                                              *)
(*                                                                         *)
(* log is the sequence of completed requests (request, locals at the       *)
(* response, status code) in the order of their responses.  It is the      *)
(* history the temporal claims speak about, and its length bounds a run.   *)
(***************************************************************************)
EXTENDS Integers, Sequences, FiniteSets, TLC

VARIABLES
    clock,        \* the reading of Date.now()
    config,       \* workflow_config:{id}      -> stored workflowConfig
    tombstone,    \* workflow_tombstone:{id}   -> {status, newWorkflowId}
    pause,        \* workflow_pause:{wid}:{job}-> PauseState
    saved,        \* workflow_state:{safeName}-> the stored editor state (a string)
    rooms,        \* connected socket         -> the rooms it has joined
    emitted,      \* the workflow_update emissions made so far
    delivered,    \* socket                    -> the events emitted to it, in order
    modal,        \* the deposit modal: its props, its state and the chain it watches
    lastRun,      \* workflow:last_run:{id}     -> the time of the last processed job
    published,    \* the messages the worker has published on workflow_events
    runs,         \* dedupe jobId               -> the worker's run of that job
    jobs,         \* the queue's jobs, one per dedupe jobId
    repeatable,   \* the queue's recurring entries (getRepeatableJobs)
    pc,           \* per handler instance: where it is suspended
    req,          \* per handler instance: the request it serves
    loc,          \* per handler instance: its local variables
    log           \* completed requests, in response order

vars == <<clock, config, tombstone, pause, saved, rooms, emitted, delivered, modal,
          lastRun, published, runs, jobs, repeatable, pc, req, loc, log>>

\* the socket side of the server
bridge == <<rooms, emitted>>

\* the worker side: its store key, its publications and its runs
worker == <<lastRun, published, runs>>

-----------------------------------------------------------------------------
(* Bounds of the model *)

\* handler instances that may be in flight together
NumProcs == 2
\* the largest reading of the millisecond clock
MaxClock == 1
\* requests per behaviour (completed ones are logged)
MaxLog == 4

Procs == 1..NumProcs
\* a single handler instance: requests that never overlap
SeqProcs == {1}

-----------------------------------------------------------------------------
(* Values *)

\* JavaScript null / undefined / a missing key, and a present value
Null == <<>>
Some(v) == <<v>>
IsSome(o) == o # <<>>
Val(o) == o[1]

\* characters of workflow names
LowerChars == {"a", "b", "d", "e", "f", "l", "t", "u"}
UpperChars == {"A", "B"}
DigitChars == {"1"}
ToLowerChar(c) == IF c = "A" THEN "a" ELSE IF c = "B" THEN "b" ELSE c

\* a slip: the case of letters is kept
SafeCharCaseKept(c) ==
    IF c \in LowerChars \cup DigitChars \cup UpperChars THEN c ELSE "_"

\* one character of name.replace(/[^a-zA-Z0-9]/g, '_').toLowerCase()
SafeChar(c) ==
    IF c \in LowerChars \cup DigitChars THEN c
    ELSE IF c \in UpperChars THEN ToLowerChar(c)
    ELSE "_"

DefaultName == <<"d", "e", "f", "a", "u", "l", "t">>

\* (workflowConfig.workflowName || "default").replace(...).toLowerCase()
SafeName(name) ==
    LET n == IF name = <<>> THEN DefaultName ELSE name
    IN  [i \in 1..Len(n) |-> SafeChar(n[i])]

\* An id is the string prefix ++ name ++ number, kept as its three parts.
TimeId(prefix, t) == <<prefix, <<>>, t>>
NameId(prefix, name) == <<prefix, name, 0>>

\* workflowId.startsWith('workflow_')
StartsWithWorkflow(id) == id[1] = "workflow_"

\* a slip: the id of a manual workflow derived from its name
DeriveIdByName(triggerType, name, now) ==
    IF triggerType = "timer" THEN NameId("cron_workflow_", SafeName(name))
    ELSE IF triggerType = "webhook" THEN NameId("workflow_", SafeName(name))
    ELSE NameId("job_", SafeName(name))

\* a slip: the id of a timer workflow taken from the clock
DeriveIdTimerByTime(triggerType, name, now) ==
    IF triggerType = "webhook" THEN NameId("workflow_", SafeName(name))
    ELSE TimeId(IF triggerType = "timer" THEN "cron_workflow_" ELSE "job_", now)

\* workflowId of POST /trigger-workflow
DeriveId(triggerType, name, now) ==
    IF triggerType = "timer" THEN NameId("cron_workflow_", SafeName(name))
    ELSE IF triggerType = "webhook" THEN NameId("workflow_", SafeName(name))
    ELSE TimeId("job_", now)

-----------------------------------------------------------------------------
(* The key-value store: get / set / del on one key prefix *)

Get(m, k) == IF k \in DOMAIN m THEN Some(m[k]) ELSE Null
Set(m, k, v) == [x \in DOMAIN m \cup {k} |-> IF x = k THEN v ELSE m[x]]
Del(m, k) == [x \in DOMAIN m \ {k} |-> m[x]]
Has(m, k) == k \in DOMAIN m

(* The queue: add() under a jobId that already names a job adds nothing *)
HasJob(q, jobId) == \E j \in q : j.jobId = jobId
QueueAdd(q, job) == IF HasJob(q, job.jobId) THEN q ELSE q \cup {job}
\* the number of jobs that add() puts into the queue
Added(q, job) == Cardinality(QueueAdd(q, job)) - Cardinality(q)

Job(jobId, workflowId, executionId, context, resume, remaining, sheet) ==
    [jobId |-> jobId, workflowId |-> workflowId, executionId |-> executionId,
     context |-> context, resume |-> resume, remainingActions |-> remaining,
     spreadsheetIdOverride |-> sheet]

-----------------------------------------------------------------------------
(* Requests and handler locals *)

\* the schedule fields of workflowConfig.trigger.  intervalMinutes is held as
\* the characters of its string form, <<>> when it is absent, empty or 0
NoSchedule == [scheduleType |-> "", intervalMinutes |-> <<>>, cronExpression |-> ""]

\* body of POST /trigger-workflow
TriggerReq(name, triggerType, sched, prev, test, body) ==
    [kind |-> "trigger",
     config |-> Some([workflowName |-> name, trigger |-> triggerType,
                      schedule |-> sched, body |-> body]),
     context |-> {}, isTestRun |-> test, previousWorkflowId |-> prev,
     id |-> Null, jobId |-> Null]

\* body of POST /resume-workflow
ResumeReq(workflowId, jobId) ==
    [kind |-> "resume", config |-> Null, context |-> {}, isTestRun |-> FALSE,
     previousWorkflowId |-> Null, id |-> workflowId, jobId |-> jobId]

\* DELETE /schedules/:key
UnscheduleReq(key) ==
    [kind |-> "unschedule", config |-> Null, context |-> {}, isTestRun |-> FALSE,
     previousWorkflowId |-> Null, id |-> Some(key), jobId |-> Null]

\* the worker persisting a PauseState under (workflowId, jobId)
PauseReq(workflowId, jobId, state) ==
    [kind |-> "pause", config |-> Some(state), context |-> {}, isTestRun |-> FALSE,
     previousWorkflowId |-> Null, id |-> Some(workflowId), jobId |-> Some(jobId)]

\* POST /webhook/:workflowId
WebhookReq(raw) ==
    [kind |-> "webhook", config |-> Null, context |-> {"payload"},
     isTestRun |-> FALSE, previousWorkflowId |-> Null,
     id |-> Some(raw), jobId |-> Null]

\* body of PUT /hot-reload
HotReloadReq(id, cfg) ==
    [kind |-> "hotreload", config |-> cfg, context |-> {},
     isTestRun |-> FALSE, previousWorkflowId |-> Null,
     id |-> id, jobId |-> Null]

NoReq ==
    [kind |-> "none", config |-> Null, context |-> {}, isTestRun |-> FALSE,
     previousWorkflowId |-> Null, id |-> Null, jobId |-> Null]

NoLoc ==
    [workflowId |-> Null,   \* the derived workflowId
     found |-> Null,        \* existingJob / raw, what a lookup returned
     enqueued |-> Null,     \* the dedupe jobId handed to workflowQueue.add
     added |-> 0,           \* jobs the queue gained by that add
     url |-> Null,          \* the webhookUrl of the response
     stored |-> Null,       \* the editor state written or returned
     lookups |-> 0,         \* store lookups made so far
     receivedAt |-> 0,      \* the clock when the request came in
     since |-> 0,           \* requests logged before this one read the store
     caught |-> FALSE,      \* the rename step failed and the failure was caught
     error |-> Null,        \* the message of the error an action threw
     userOps |-> 0]         \* UserOperations the action has sent

\* the deposit modal as it is mounted: closed, no data, nothing submitted
NoModal ==
    [isOpen |-> FALSE,       \* prop isOpen
     depositData |-> Null,   \* prop depositData
     onResume |-> FALSE,     \* prop onResume is given
     pendingHash |-> Null,   \* state pendingHash
     hasResumed |-> FALSE,   \* state hasResumed
     step |-> "idle",        \* where handleDeposit is
     receipts |-> <<>>,      \* submitted hash -> "pending", "success" or "reverted"
     attempts |-> 0,         \* calls of handleDeposit
     closes |-> 0,           \* calls of onClose
     resumes |-> <<>>]       \* calls of onResume, in order

Init ==
    /\ clock = 0
    /\ config = <<>>
    /\ tombstone = <<>>
    /\ pause = <<>>
    /\ saved = <<>>
    /\ rooms = <<>>
    /\ emitted = {}
    /\ delivered = <<>>
    /\ modal = NoModal
    /\ lastRun = <<>>
    /\ published = <<>>
    /\ runs = <<>>
    /\ jobs = {}
    /\ repeatable = {}
    /\ pc = [p \in Procs |-> "idle"]
    /\ req = [p \in Procs |-> NoReq]
    /\ loc = [p \in Procs |-> NoLoc]
    /\ log = <<>>

InFlight == {p \in Procs : pc[p] # "idle"}

\* a new request is admitted while the run has room for it
CanStart(p) == pc[p] = "idle" /\ Len(log) + Cardinality(InFlight) < MaxLog

\* the handler receives request r and runs up to its first await
Begin(p, r, l, next) ==
    /\ CanStart(p)
    /\ req' = [req EXCEPT ![p] = r]
    /\ loc' = [loc EXCEPT ![p] = [l EXCEPT !.receivedAt = clock, !.since = Len(log)]]
    /\ pc' = [pc EXCEPT ![p] = next]
    /\ UNCHANGED log

\* the handler continues at the next await
Goto(p, l, next) ==
    /\ loc' = [loc EXCEPT ![p] = l]
    /\ pc' = [pc EXCEPT ![p] = next]
    /\ UNCHANGED <<req, log>>

\* the handler sends its response
Respond(p, r, l, status) ==
    /\ log' = Append(log, [req |-> r, loc |-> l, status |-> status])
    /\ pc' = [pc EXCEPT ![p] = "idle"]
    /\ req' = [req EXCEPT ![p] = NoReq]
    /\ loc' = [loc EXCEPT ![p] = NoLoc]

\* the clock advances by a millisecond
Tick ==
    /\ clock < MaxClock
    /\ clock' = clock + 1
    /\ UNCHANGED <<modal, delivered, worker, saved, bridge, config, tombstone, pause, jobs, repeatable, pc, req, loc, log>>

-----------------------------------------------------------------------------
(* POST /trigger-workflow *)

TriggerType(r) == Val(r.config).trigger
IsWebhook(r) == TriggerType(r) = "webhook"
IsTimer(r) == TriggerType(r) = "timer"

\* previousId && previousId !== workflowId
IsRename(r, workflowId) ==
    /\ IsWebhook(r)
    /\ IsSome(r.previousWorkflowId)
    /\ Val(r.previousWorkflowId) # workflowId

\* the value of a decimal digit
DigitValue(c) ==
    CASE c = "0" -> 0 [] c = "1" -> 1 [] c = "2" -> 2 [] c = "3" -> 3 [] c = "4" -> 4
      [] c = "5" -> 5 [] c = "6" -> 6 [] c = "7" -> 7 [] c = "8" -> 8 [] c = "9" -> 9
IsDigit(c) == c \in {"0", "1", "2", "3", "4", "5", "6", "7", "8", "9"}

\* the digits of s from position i up to the first character that is no digit
RECURSIVE LeadingDigits(_, _, _)
LeadingDigits(s, i, acc) ==
    IF i > Len(s) \/ ~IsDigit(s[i]) THEN acc
    ELSE LeadingDigits(s, i + 1, acc * 10 + DigitValue(s[i]))

\* parseInt(s) of a string that starts with a digit or with - and a digit
ParseInt(s) ==
    IF s[1] = "-" THEN 0 - LeadingDigits(s, 2, 0) ELSE LeadingDigits(s, 1, 0)

\* a slip: the interval is taken whatever the scheduleType says
RepeatOptsAnyType(sched) ==
    IF sched.scheduleType = "cron" /\ sched.cronExpression # ""
    THEN Some([pattern |-> sched.cronExpression, every |-> 0])
    ELSE IF sched.intervalMinutes # <<>>
    THEN Some([pattern |-> "", every |-> ParseInt(sched.intervalMinutes) * 60 * 1000])
    ELSE Null

\* repeatOpts of a timer trigger; Null when the configuration is invalid
RepeatOpts(sched) ==
    IF sched.scheduleType = "cron" /\ sched.cronExpression # ""
    THEN Some([pattern |-> sched.cronExpression, every |-> 0])
    ELSE IF sched.scheduleType = "interval" /\ sched.intervalMinutes # <<>>
    THEN Some([pattern |-> "", every |-> ParseInt(sched.intervalMinutes) * 60 * 1000])
    ELSE Null

\* the key the queue gives a recurring entry: its jobId and its schedule
RepeatKey(id, opts) == <<id, opts.pattern, opts.every>>

\* the context a test run is queued with
TestContext(manualContext) == manualContext \cup {"WebhookBody"}

\* entry of the handler up to its first await
\* a slip: a test run is enqueued before anything is stored
TriggerBeginTestRunFirst(p, r) ==
    /\ r.kind = "trigger"
    /\ UNCHANGED <<modal, delivered, worker, saved, bridge, clock, config, tombstone, pause, jobs, repeatable>>
    /\ IF ~IsSome(r.config)
       THEN /\ CanStart(p)
            /\ Respond(p, r, NoLoc, 400)
       ELSE LET workflowId == DeriveId(TriggerType(r), Val(r.config).workflowName, clock)
                l == [NoLoc EXCEPT !.workflowId = Some(workflowId)]
            IN  Begin(p, r, l, IF r.isTestRun THEN "t_testadd"
                               ELSE IF IsRename(r, workflowId) THEN "t_tombstone"
                               ELSE "t_setconfig")

TriggerBegin(p, r) ==
    /\ r.kind = "trigger"
    /\ UNCHANGED <<modal, delivered, worker, saved, bridge, clock, config, tombstone, pause, jobs, repeatable>>
    /\ IF ~IsSome(r.config)
       THEN /\ CanStart(p)
            /\ Respond(p, r, NoLoc, 400)
       ELSE LET workflowId == DeriveId(TriggerType(r), Val(r.config).workflowName, clock)
                l == [NoLoc EXCEPT !.workflowId = Some(workflowId)]
            IN  Begin(p, r, l, IF IsRename(r, workflowId) THEN "t_tombstone" ELSE "t_setconfig")

\* a slip: the tombstone written under the new id instead of the previous one
TriggerTombstoneUnderNewId(p) ==
    /\ pc[p] = "t_tombstone"
    /\ tombstone' = Set(tombstone, Val(loc[p].workflowId),
                        [status |-> "renamed", newWorkflowId |-> Val(loc[p].workflowId)])
    /\ Goto(p, loc[p], "t_delprevious")
    /\ UNCHANGED <<modal, delivered, worker, saved, bridge, clock, config, pause, jobs, repeatable>>

\* redisConnection.set(tombstoneKey, {status: 'renamed', newWorkflowId}); a
\* failure of this write or of the delete after it is caught and logged
TriggerTombstone(p) ==
    /\ pc[p] = "t_tombstone"
    /\ tombstone' = Set(tombstone, Val(req[p].previousWorkflowId),
                        [status |-> "renamed", newWorkflowId |-> Val(loc[p].workflowId)])
    /\ Goto(p, loc[p], "t_delprevious")
    /\ UNCHANGED <<modal, delivered, worker, saved, bridge, clock, config, pause, jobs, repeatable>>

\* a slip: the failed tombstone write ends the request with the error response
TriggerTombstoneUncaught(p) ==
    /\ pc[p] = "t_tombstone"
    /\ Respond(p, req[p], [loc[p] EXCEPT !.caught = TRUE], 500)
    /\ UNCHANGED <<modal, delivered, worker, saved, bridge, clock, config, tombstone, pause, jobs, repeatable>>

\* redisConnection.set(tombstoneKey, ...) rejects: the catch around the rename
\* step logs the error, the delete of the old config is skipped, and the
\* handler goes on to store the config
TriggerTombstoneFails(p) ==
    /\ pc[p] = "t_tombstone"
    /\ Goto(p, [loc[p] EXCEPT !.caught = TRUE], "t_setconfig")
    /\ UNCHANGED <<modal, delivered, worker, saved, bridge, clock, config, tombstone, pause, jobs, repeatable>>

\* redisConnection.del(`workflow_config:${previousId}`) rejects: caught alike
TriggerDelPreviousFails(p) ==
    /\ pc[p] = "t_delprevious"
    /\ Goto(p, [loc[p] EXCEPT !.caught = TRUE], "t_setconfig")
    /\ UNCHANGED <<modal, delivered, worker, saved, bridge, clock, config, tombstone, pause, jobs, repeatable>>

\* redisConnection.del(`workflow_config:${previousId}`)
TriggerDelPrevious(p) ==
    /\ pc[p] = "t_delprevious"
    /\ config' = Del(config, Val(req[p].previousWorkflowId))
    /\ Goto(p, loc[p], "t_setconfig")
    /\ UNCHANGED <<modal, delivered, worker, saved, bridge, clock, tombstone, pause, jobs, repeatable>>

\* where the handler goes once the config is stored and the tombstone cleared
AfterActivation(p) ==
    IF req[p].isTestRun THEN "t_testadd"
    ELSE IF IsWebhook(req[p]) THEN "respond_202"
    ELSE IF IsTimer(req[p])
    THEN IF IsSome(RepeatOpts(Val(req[p].config).schedule)) THEN "t_list" ELSE "respond_400"
    ELSE "t_jobadd"

\* webhookUrl = `http://localhost:${PORT}/webhook/${workflowId}`
WebhookUrl(workflowId) == <<"http://localhost:3001/webhook/", workflowId>>

\* continue at label next, or respond when next names a response
Continue(p, l, next) ==
    IF next = "respond_202"
    THEN Respond(p, req[p], [l EXCEPT !.url = Some(WebhookUrl(Val(l.workflowId)))], 202)
    ELSE IF next = "respond_400" THEN Respond(p, req[p], l, 400)
    ELSE Goto(p, l, next)

\* a slip: a config already stored under the id is kept
TriggerSetConfigOnce(p) ==
    /\ pc[p] = "t_setconfig"
    /\ config' = IF Has(config, Val(loc[p].workflowId)) THEN config
                 ELSE Set(config, Val(loc[p].workflowId), Val(req[p].config))
    /\ Continue(p, loc[p], IF IsWebhook(req[p]) THEN "t_cleartombstone" ELSE AfterActivation(p))
    /\ UNCHANGED <<modal, delivered, worker, saved, bridge, clock, tombstone, pause, jobs, repeatable>>

\* redisConnection.set(`workflow_config:${workflowId}`, workflowConfig)
TriggerSetConfig(p) ==
    /\ pc[p] = "t_setconfig"
    /\ config' = Set(config, Val(loc[p].workflowId), Val(req[p].config))
    /\ Continue(p, loc[p], IF IsWebhook(req[p]) THEN "t_cleartombstone" ELSE AfterActivation(p))
    /\ UNCHANGED <<modal, delivered, worker, saved, bridge, clock, tombstone, pause, jobs, repeatable>>

\* a slip: the tombstone of the activated id left in place
TriggerClearTombstoneSkipped(p) ==
    /\ pc[p] = "t_cleartombstone"
    /\ Continue(p, loc[p], AfterActivation(p))
    /\ UNCHANGED <<modal, delivered, worker, saved, bridge, clock, config, tombstone, pause, jobs, repeatable>>

\* redisConnection.del(`workflow_tombstone:${workflowId}`)
TriggerClearTombstone(p) ==
    /\ pc[p] = "t_cleartombstone"
    /\ tombstone' = Del(tombstone, Val(loc[p].workflowId))
    /\ Continue(p, loc[p], AfterActivation(p))
    /\ UNCHANGED <<modal, delivered, worker, saved, bridge, clock, config, pause, jobs, repeatable>>

\* immediateId = `test_run_${Date.now()}`; workflowQueue.add(..., {jobId: immediateId})
TriggerTestAdd(p) ==
    /\ pc[p] = "t_testadd"
    /\ LET immediateId == TimeId("test_run_", clock)
           job == Job(immediateId, Val(loc[p].workflowId), Some(immediateId),
                      TestContext(req[p].context), FALSE, Null, Null)
       IN  /\ jobs' = QueueAdd(jobs, job)
           /\ Respond(p, req[p], [loc[p] EXCEPT !.enqueued = Some(immediateId),
                                                !.added = Added(jobs, job)], 202)
    /\ UNCHANGED <<modal, delivered, worker, saved, bridge, clock, config, tombstone, pause, repeatable>>

\* repeatableJobs = getRepeatableJobs(); existingJob = repeatableJobs.find(id === workflowId)
\* (find returns the first match of the list, whose order the queue decides)
TriggerList(p) ==
    /\ pc[p] = "t_list"
    /\ LET matches == {e \in repeatable : e.id = Val(loc[p].workflowId)}
       IN  IF matches = {}
           THEN Goto(p, [loc[p] EXCEPT !.found = Null], "t_repeatadd")
           ELSE \E e \in matches : Goto(p, [loc[p] EXCEPT !.found = Some(e)], "t_remove")
    /\ UNCHANGED <<modal, delivered, worker, saved, bridge, clock, config, tombstone, pause, jobs, repeatable>>

\* a slip: the old schedule left in place
TriggerRemoveNothing(p) ==
    /\ pc[p] = "t_remove"
    /\ Goto(p, loc[p], "t_repeatadd")
    /\ UNCHANGED <<modal, delivered, worker, saved, bridge, clock, config, tombstone, pause, jobs, repeatable>>

\* workflowQueue.removeRepeatableByKey(existingJob.key)
TriggerRemove(p) ==
    /\ pc[p] = "t_remove"
    /\ repeatable' = {e \in repeatable : e.key # Val(loc[p].found).key}
    /\ Goto(p, loc[p], "t_repeatadd")
    /\ UNCHANGED <<modal, delivered, worker, saved, bridge, clock, config, tombstone, pause, jobs>>

\* workflowQueue.add(..., {repeat: repeatOpts, jobId: workflowId})
TriggerRepeatAdd(p) ==
    /\ pc[p] = "t_repeatadd"
    /\ LET workflowId == Val(loc[p].workflowId)
           opts == Val(RepeatOpts(Val(req[p].config).schedule))
           entry == [key |-> RepeatKey(workflowId, opts), id |-> workflowId,
                     pattern |-> opts.pattern, every |-> opts.every]
       IN  /\ repeatable' = {e \in repeatable : e.key # entry.key} \cup {entry}
           /\ Respond(p, req[p], [loc[p] EXCEPT !.enqueued = Some(workflowId)], 202)
    /\ UNCHANGED <<modal, delivered, worker, saved, bridge, clock, config, tombstone, pause, jobs>>

\* workflowQueue.add(..., {jobId: workflowId})
TriggerJobAdd(p) ==
    /\ pc[p] = "t_jobadd"
    /\ LET workflowId == Val(loc[p].workflowId)
           job == Job(workflowId, workflowId, Null, req[p].context, FALSE, Null, Null)
       IN  /\ jobs' = QueueAdd(jobs, job)
           /\ Respond(p, req[p], [loc[p] EXCEPT !.enqueued = Some(workflowId),
                                                !.added = Added(jobs, job)], 202)
    /\ UNCHANGED <<modal, delivered, worker, saved, bridge, clock, config, tombstone, pause, repeatable>>

-----------------------------------------------------------------------------
(* DELETE /schedules/:key *)

UnscheduleBegin(p, r) ==
    /\ r.kind = "unschedule"
    /\ Begin(p, r, NoLoc, "u_remove")
    /\ UNCHANGED <<modal, delivered, worker, saved, bridge, clock, config, tombstone, pause, jobs, repeatable>>

\* workflowQueue.removeRepeatableByKey(decodedKey)
UnscheduleRemove(p) ==
    /\ pc[p] = "u_remove"
    /\ repeatable' = {e \in repeatable : e.key # Val(req[p].id)}
    /\ Respond(p, req[p], loc[p], 200)
    /\ UNCHANGED <<modal, delivered, worker, saved, bridge, clock, config, tombstone, pause, jobs>>

-----------------------------------------------------------------------------
(* POST /resume-workflow *)

\* the key `workflow_pause:${workflowId}:${jobId}`
PauseKey(workflowId, jobId) == <<workflowId, jobId>>

ResumeBegin(p, r) ==
    /\ r.kind = "resume"
    /\ UNCHANGED <<modal, delivered, worker, saved, bridge, clock, config, tombstone, pause, jobs, repeatable>>
    /\ IF ~IsSome(r.id) \/ ~IsSome(r.jobId)
       THEN /\ CanStart(p)
            /\ Respond(p, r, NoLoc, 400)
       ELSE Begin(p, r, [NoLoc EXCEPT !.workflowId = r.id], "r_get")

\* a slip: a PauseState found corrupted is removed from the store
ResumeGetDropsCorrupted(p) ==
    /\ pc[p] = "r_get"
    /\ LET key == PauseKey(Val(req[p].id), Val(req[p].jobId))
           raw == Get(pause, key)
           l == [loc[p] EXCEPT !.found = raw, !.lookups = @ + 1, !.since = Len(log)]
       IN  IF ~IsSome(raw) THEN Respond(p, req[p], l, 404) /\ UNCHANGED pause
           ELSE IF ~IsSome(Val(raw).remainingActions) \/ ~IsSome(Val(raw).context)
           THEN Respond(p, req[p], l, 500) /\ pause' = Del(pause, key)
           ELSE Goto(p, l, "r_del") /\ UNCHANGED pause
    /\ UNCHANGED <<modal, delivered, worker, saved, bridge, clock, config, tombstone, jobs, repeatable>>

\* a slip: a PauseState with nothing left to run counts as corrupted
ResumeGetNonEmpty(p) ==
    /\ pc[p] = "r_get"
    /\ LET raw == Get(pause, PauseKey(Val(req[p].id), Val(req[p].jobId)))
           l == [loc[p] EXCEPT !.found = raw, !.lookups = @ + 1, !.since = Len(log)]
       IN  IF ~IsSome(raw) THEN Respond(p, req[p], l, 404)
           ELSE IF Val(raw).remainingActions \in {Null, Some(<<>>)} \/ ~IsSome(Val(raw).context)
           THEN Respond(p, req[p], l, 500)
           ELSE Goto(p, l, "r_del")
    /\ UNCHANGED <<modal, delivered, worker, saved, bridge, clock, config, tombstone, pause, jobs, repeatable>>

\* raw = redisConnection.get(pauseKey); 404 without it, 500 if a field is missing
ResumeGet(p) ==
    /\ pc[p] = "r_get"
    /\ LET raw == Get(pause, PauseKey(Val(req[p].id), Val(req[p].jobId)))
           l == [loc[p] EXCEPT !.found = raw, !.lookups = @ + 1, !.since = Len(log)]
       IN  IF ~IsSome(raw) THEN Respond(p, req[p], l, 404)
           ELSE IF ~IsSome(Val(raw).remainingActions) \/ ~IsSome(Val(raw).context)
           THEN Respond(p, req[p], l, 500)
           ELSE Goto(p, l, "r_del")
    /\ UNCHANGED <<modal, delivered, worker, saved, bridge, clock, config, tombstone, pause, jobs, repeatable>>

\* a slip: the PauseState left in place
ResumeDelNothing(p) ==
    /\ pc[p] = "r_del"
    /\ Goto(p, loc[p], "r_add")
    /\ UNCHANGED <<modal, delivered, worker, saved, bridge, clock, config, tombstone, pause, jobs, repeatable>>

\* a slip: the delete names the key with its two ids exchanged
ResumeDelSwappedKey(p) ==
    /\ pc[p] = "r_del"
    /\ pause' = Del(pause, PauseKey(Val(req[p].jobId), Val(req[p].id)))
    /\ Goto(p, loc[p], "r_add")
    /\ UNCHANGED <<modal, delivered, worker, saved, bridge, clock, config, tombstone, jobs, repeatable>>

\* redisConnection.del(pauseKey)
ResumeDel(p) ==
    /\ pc[p] = "r_del"
    /\ pause' = Del(pause, PauseKey(Val(req[p].id), Val(req[p].jobId)))
    /\ Goto(p, loc[p], "r_add")
    /\ UNCHANGED <<modal, delivered, worker, saved, bridge, clock, config, tombstone, jobs, repeatable>>

\* executionId = `resume_${Date.now()}`; workflowQueue.add(..., {jobId: executionId})
ResumeAdd(p) ==
    /\ pc[p] = "r_add"
    /\ LET executionId == TimeId("resume_", clock)
           pauseState == Val(loc[p].found)
           job == Job(executionId, Val(req[p].id), Some(executionId),
                      Val(pauseState.context), TRUE,
                      pauseState.remainingActions, pauseState.spreadsheetId)
       IN  /\ jobs' = QueueAdd(jobs, job)
           /\ Respond(p, req[p], [loc[p] EXCEPT !.enqueued = Some(executionId),
                                                !.added = Added(jobs, job)], 202)
    /\ UNCHANGED <<modal, delivered, worker, saved, bridge, clock, config, tombstone, pause, repeatable>>

-----------------------------------------------------------------------------
(* The worker pausing a run: it persists the PauseState of (workflowId,    *)
(* jobId).  This step of the worker is logged like a request.              *)

WorkerPause(r) ==
    /\ r.kind = "pause"
    /\ Len(log) + Cardinality(InFlight) < MaxLog
    /\ pause' = Set(pause, PauseKey(Val(r.id), Val(r.jobId)), Val(r.config))
    /\ log' = Append(log, [req |-> r, loc |-> NoLoc, status |-> 0])
    /\ UNCHANGED <<modal, delivered, worker, saved, bridge, clock, config, tombstone, jobs, repeatable, pc, req, loc>>

-----------------------------------------------------------------------------
(* POST /webhook/:workflowId *)

WebhookBegin(p, r) ==
    /\ r.kind = "webhook"
    /\ UNCHANGED <<modal, delivered, worker, saved, bridge, clock, config, tombstone, pause, jobs, repeatable>>
    /\ IF ~StartsWithWorkflow(Val(r.id))
       THEN /\ CanStart(p)
            /\ Respond(p, r, NoLoc, 400)
       ELSE Begin(p, r, [NoLoc EXCEPT !.workflowId = r.id], "w_getconfig")

\* a slip: a tombstone overrides an active config
WebhookGetConfigTombstoneWins(p) ==
    /\ pc[p] = "w_getconfig"
    /\ Goto(p, [loc[p] EXCEPT !.lookups = @ + 1],
            IF Has(config, Val(loc[p].workflowId)) /\ ~Has(tombstone, Val(loc[p].workflowId))
            THEN "w_add" ELSE "w_gettombstone")
    /\ UNCHANGED <<modal, delivered, worker, saved, bridge, clock, config, tombstone, pause, jobs, repeatable>>

\* configString = redisConnection.get(`workflow_config:${workflowId}`)
WebhookGetConfig(p) ==
    /\ pc[p] = "w_getconfig"
    /\ Goto(p, [loc[p] EXCEPT !.lookups = @ + 1],
            IF Has(config, Val(loc[p].workflowId)) THEN "w_add" ELSE "w_gettombstone")
    /\ UNCHANGED <<modal, delivered, worker, saved, bridge, clock, config, tombstone, pause, jobs, repeatable>>

\* a slip: the call that finds the id gone removes the tombstone it found
WebhookGetTombstoneConsumed(p) ==
    /\ pc[p] = "w_gettombstone"
    /\ tombstone' = Del(tombstone, Val(loc[p].workflowId))
    /\ Respond(p, req[p], [loc[p] EXCEPT !.lookups = @ + 1],
               IF Has(tombstone, Val(loc[p].workflowId)) THEN 410 ELSE 404)
    /\ UNCHANGED <<modal, delivered, worker, saved, bridge, clock, config, pause, jobs, repeatable>>

\* tombstoneRaw = redisConnection.get(tombstoneKey): 410 if present, else 404
WebhookGetTombstone(p) ==
    /\ pc[p] = "w_gettombstone"
    /\ Respond(p, req[p], [loc[p] EXCEPT !.lookups = @ + 1],
               IF Has(tombstone, Val(loc[p].workflowId)) THEN 410 ELSE 404)
    /\ UNCHANGED <<modal, delivered, worker, saved, bridge, clock, config, tombstone, pause, jobs, repeatable>>

\* executionId = `webhook_exec_${Date.now()}`; workflowQueue.add(...)
WebhookAdd(p) ==
    /\ pc[p] = "w_add"
    /\ LET executionId == TimeId("webhook_exec_", clock)
           workflowId == Val(loc[p].workflowId)
           job == Job(executionId, workflowId, Some(workflowId),
                      {"WebhookBody", "WebhookQuery", "WebhookHeaders"},
                      FALSE, Null, Null)
       IN  /\ jobs' = QueueAdd(jobs, job)
           /\ Respond(p, req[p], [loc[p] EXCEPT !.enqueued = Some(executionId),
                                                !.added = Added(jobs, job)], 200)
    /\ UNCHANGED <<modal, delivered, worker, saved, bridge, clock, config, tombstone, pause, repeatable>>

-----------------------------------------------------------------------------
(* PUT /hot-reload *)

HotReloadBegin(p, r) ==
    /\ r.kind = "hotreload"
    /\ UNCHANGED <<modal, delivered, worker, saved, bridge, clock, config, tombstone, pause, jobs, repeatable>>
    /\ IF ~IsSome(r.id) \/ ~IsSome(r.config)
       THEN /\ CanStart(p)
            /\ Respond(p, r, NoLoc, 400)
       ELSE Begin(p, r, [NoLoc EXCEPT !.workflowId = r.id], "h_set")

\* redisConnection.set(`workflow_config:${workflowId}`, config)
HotReloadSet(p) ==
    /\ pc[p] = "h_set"
    /\ config' = Set(config, Val(loc[p].workflowId), Val(req[p].config))
    /\ Respond(p, req[p], loc[p], 200)
    /\ UNCHANGED <<modal, delivered, worker, saved, bridge, clock, tombstone, pause, jobs, repeatable>>

-----------------------------------------------------------------------------
(* Webhook identity: deploys and renames of webhook workflows, hot-reloads *)
(* and inbound webhook calls, one request at a time.  The answers to these *)
(* requests do not depend on the clock, which stays at its first reading.  *)

WebhookNames == {<<"a">>, <<"B">>}
WebhookIds == {NameId("workflow_", SafeName(n)) : n \in WebhookNames}
WebhookConfig(name) ==
    [workflowName |-> name, trigger |-> "webhook", schedule |-> NoSchedule, body |-> 1]

IdentityRequests ==
    {TriggerReq(n, "webhook", NoSchedule, prev, FALSE, 1) :
        n \in WebhookNames, prev \in {Null} \cup {Some(w) : w \in WebhookIds}}
    \cup {HotReloadReq(Some(w), Some(WebhookConfig(<<"a">>))) : w \in WebhookIds}
    \cup {WebhookReq(w) : w \in WebhookIds \cup {NameId("cron_workflow_", <<"a">>)}}

NextIdentitySeq ==
    \E p \in SeqProcs :
        \/ \E r \in IdentityRequests : TriggerBegin(p, r)
        \/ TriggerTombstone(p)
        \/ TriggerDelPrevious(p)
        \/ TriggerSetConfig(p)
        \/ TriggerClearTombstone(p)
        \/ \E r \in IdentityRequests : WebhookBegin(p, r)
        \/ WebhookGetConfig(p)
        \/ WebhookGetTombstone(p)
        \/ WebhookAdd(p)
        \/ \E r \in IdentityRequests : HotReloadBegin(p, r)
        \/ HotReloadSet(p)

SpecIdentitySeq == Init /\ [][NextIdentitySeq]_vars

-----------------------------------------------------------------------------
(* Reading the log *)

LogIdx == 1..Len(log)
Idle == \A p \in Procs : pc[p] = "idle"

\* entry e is a /trigger-workflow request with a webhook trigger, answered 202
IsWebhookDeploy(e) ==
    /\ e.req.kind = "trigger"
    /\ e.status = 202
    /\ IsWebhook(e.req)

\* entry e is a webhook deploy that renames workflow a to workflow b
IsRenameFromTo(e, a, b) ==
    /\ IsWebhookDeploy(e)
    /\ e.req.previousWorkflowId = Some(a)
    /\ e.loc.workflowId = Some(b)
    /\ a # b

\* entry e is an inbound webhook call to id w
IsCallTo(e, w) == e.req.kind = "webhook" /\ e.req.id = Some(w)

\* only webhook calls were answered strictly between entries i and j
OnlyCallsBetween(i, j) == \A k \in (i + 1)..(j - 1) : log[k].req.kind = "webhook"

\* no request answered strictly between i and j deleted the config of w
ConfigStaysBetween(i, j, w) ==
    \A k \in (i + 1)..(j - 1) :
        ~(IsWebhookDeploy(log[k]) /\ log[k].req.previousWorkflowId = Some(w)
          /\ log[k].loc.workflowId # Some(w))

-----------------------------------------------------------------------------
(* C1: no workflowId has a tombstone and a config at the same time, in any *)
(* reachable state of the store.                                           *)
C1_TombstoneExcludesConfig == \A id \in DOMAIN tombstone : id \notin DOMAIN config

(* C6: once a webhook deploy has renamed workflow a to b (a in the webhook *)
(* namespace, a # b), and until the next deploy or hot-reload, every       *)
(* webhook call to a is answered 410 (gone) and every webhook call to b is *)
(* answered 200 with an execution handed to the queue.                     *)
C6_RenamedIdIsGone ==
    \A i, j \in LogIdx : \A a, b \in WebhookIds :
        (i < j /\ IsRenameFromTo(log[i], a, b) /\ OnlyCallsBetween(i, j)) =>
            /\ IsCallTo(log[j], a) => log[j].status = 410
            /\ IsCallTo(log[j], b) => log[j].status = 200 /\ IsSome(log[j].loc.enqueued)

\* workflow a was deployed, renamed to b, then called: gone; b called: accepted
C6_Witness ==
    \E a, b \in WebhookIds :
        /\ Len(log) = 4
        /\ IsWebhookDeploy(log[1]) /\ log[1].loc.workflowId = Some(a)
        /\ IsRenameFromTo(log[2], a, b)
        /\ IsCallTo(log[3], a) /\ log[3].status = 410
        /\ IsCallTo(log[4], b) /\ log[4].status = 200

(* C7: a webhook deploy of id w leaves w with a config and without a       *)
(* tombstone, and every later webhook call to w is answered 200 as long as *)
(* no rename has deleted the config of w since; renames may form a chain.  *)
C7_ReactivationClearsTombstone ==
    \A i \in LogIdx : \A w \in WebhookIds :
        (IsWebhookDeploy(log[i]) /\ log[i].loc.workflowId = Some(w)) =>
            /\ (i = Len(log) /\ Idle) => (~Has(tombstone, w) /\ Has(config, w))
            /\ \A j \in LogIdx :
                  (i < j /\ IsCallTo(log[j], w) /\ ConfigStaysBetween(i, j, w))
                      => log[j].status = 200

\* a renamed to b, b renamed back to a, and a call to a accepted
C7_Witness ==
    \E a, b \in WebhookIds :
        /\ Len(log) = 3 /\ Idle
        /\ IsRenameFromTo(log[1], a, b)
        /\ IsRenameFromTo(log[2], b, a)
        /\ IsCallTo(log[3], a) /\ log[3].status = 200
        /\ ~Has(tombstone, a)

(* C8: a webhook call to an id outside the workflow_ namespace is answered *)
(* 400 without any store lookup; otherwise 200 if a config exists for the  *)
(* id (tombstone or not), else 410 if a tombstone exists, else 404.        *)
C8_ResolutionOrder ==
    (Idle /\ Len(log) > 0 /\ log[Len(log)].req.kind = "webhook") =>
        LET e == log[Len(log)]
            w == Val(e.req.id)
        IN  /\ e.status = IF ~StartsWithWorkflow(w) THEN 400
                          ELSE IF Has(config, w) THEN 200
                          ELSE IF Has(tombstone, w) THEN 410
                          ELSE 404
            /\ e.status = 400 => e.loc.lookups = 0

\* a call accepted although the id still has a tombstone
C8_Witness ==
    /\ Idle /\ Len(log) > 0
    /\ log[Len(log)].req.kind = "webhook"
    /\ log[Len(log)].status = 200
    /\ Has(tombstone, Val(log[Len(log)].req.id))

-----------------------------------------------------------------------------
(* Webhook deliveries: deploys of webhook workflows and inbound calls to   *)
(* them, one request at a time, while the clock advances or not.           *)

DeliveryRequests ==
    {TriggerReq(n, "webhook", NoSchedule, Null, FALSE, 1) : n \in WebhookNames}
    \cup {WebhookReq(w) : w \in WebhookIds}

NextDeliverySeq ==
    \/ Tick
    \/ \E p \in SeqProcs :
          \/ \E r \in DeliveryRequests : TriggerBegin(p, r)
          \/ TriggerSetConfig(p)
          \/ TriggerClearTombstone(p)
          \/ \E r \in DeliveryRequests : WebhookBegin(p, r)
          \/ WebhookGetConfig(p)
          \/ WebhookGetTombstone(p)
          \/ WebhookAdd(p)

SpecDeliverySeq == Init /\ [][NextDeliverySeq]_vars

(* C10: any two accepted webhook deliveries, to the same or to different   *)
(* workflows, are enqueued under different dedupe jobIds.                  *)
C10_DeliveryJobIdsDiffer ==
    \A i, j \in LogIdx :
        (i < j /\ log[i].req.kind = "webhook" /\ log[j].req.kind = "webhook"
         /\ log[i].status = 200 /\ log[j].status = 200)
            => log[i].loc.enqueued # log[j].loc.enqueued

\* a webhook deploy of id w was answered before entry j
DeployedBefore(j, w) ==
    \E i \in 1..(j - 1) : IsWebhookDeploy(log[i]) /\ log[i].loc.workflowId = Some(w)

(* C11: a webhook call to an id that has neither config nor tombstone      *)
(* (never deployed) is answered 404 and hands nothing to the queue; a call *)
(* to an id that has been deployed is answered 200 and puts exactly one    *)
(* job into the queue, whose workflowId and executionId are the called id  *)
(* and whose dedupe jobId is not the workflowId.                           *)
C11_NotFoundThenAccepted ==
    \A j \in LogIdx : \A w \in WebhookIds :
        IsCallTo(log[j], w) =>
            IF DeployedBefore(j, w)
            THEN /\ log[j].status = 200
                 /\ log[j].loc.added = 1
                 /\ \E job \in jobs :
                       /\ Some(job.jobId) = log[j].loc.enqueued
                       /\ job.workflowId = w
                       /\ job.executionId = Some(w)
                       /\ job.jobId # job.workflowId
            ELSE /\ log[j].status = 404
                 /\ log[j].loc.enqueued = Null
                 /\ log[j].loc.added = 0

-----------------------------------------------------------------------------
(* Timer schedules: timer deploys of one workflow under several schedules  *)
(* (one of them invalid) and schedule deletions.                           *)

TimerName == <<"a">>
CronId == NameId("cron_workflow_", SafeName(TimerName))
EveryFive == [scheduleType |-> "interval", intervalMinutes |-> <<"5">>, cronExpression |-> ""]
AtNoon == [scheduleType |-> "cron", intervalMinutes |-> <<>>, cronExpression |-> "0 12 * * *"]
NoMinutes == [scheduleType |-> "interval", intervalMinutes |-> <<>>, cronExpression |-> ""]
Schedules == {EveryFive, AtNoon, NoMinutes}

TimerRequests ==
    {TriggerReq(TimerName, "timer", sched, Null, FALSE, 1) : sched \in Schedules}
    \cup {UnscheduleReq(RepeatKey(CronId, Val(RepeatOpts(EveryFive))))}

TimerSteps(p) ==
    \/ \E r \in TimerRequests : TriggerBegin(p, r)
    \/ TriggerSetConfig(p)
    \/ TriggerList(p)
    \/ TriggerRemove(p)
    \/ TriggerRepeatAdd(p)
    \/ \E r \in TimerRequests : UnscheduleBegin(p, r)
    \/ UnscheduleRemove(p)

\* timer deploys that may overlap
NextTimer == \E p \in Procs : TimerSteps(p)
SpecTimer == Init /\ [][NextTimer]_vars

\* timer deploys one after the other
NextTimerSeq == \E p \in SeqProcs : TimerSteps(p)
SpecTimerSeq == Init /\ [][NextTimerSeq]_vars

\* entry e is an accepted timer deploy (not a test run) of workflow w
IsTimerDeploy(e, w) ==
    /\ e.req.kind = "trigger"
    /\ e.status = 202
    /\ IsTimer(e.req)
    /\ ~e.req.isTestRun
    /\ e.loc.workflowId = Some(w)

EntriesOf(w) == {e \in repeatable : e.id = w}

(* C4: after timer deploys of one workflow that never overlapped, the last *)
(* of them accepted and no schedule deleted since, exactly one recurring   *)
(* entry has the workflow's id, and it carries the schedule of that last   *)
(* deploy.                                                                 *)
C4_OneEntryAfterRedeploys ==
    \A i \in LogIdx :
        (/\ Idle
         /\ IsTimerDeploy(log[i], CronId)
         /\ \A k \in (i + 1)..Len(log) : log[k].status = 400)
        => LET opts == Val(RepeatOpts(Val(log[i].req.config).schedule))
           IN  /\ Cardinality(EntriesOf(CronId)) = 1
               /\ \A e \in EntriesOf(CronId) :
                     e.pattern = opts.pattern /\ e.every = opts.every

\* the workflow was deployed every five minutes, then redeployed at noon
C4_Witness ==
    /\ Idle /\ Len(log) = 2
    /\ IsTimerDeploy(log[1], CronId) /\ Val(log[1].req.config).schedule = EveryFive
    /\ IsTimerDeploy(log[2], CronId) /\ Val(log[2].req.config).schedule = AtNoon
    /\ Cardinality(EntriesOf(CronId)) = 1

(* C5: no two recurring entries of the queue share a logical id, in any    *)
(* reachable state, timer deploys of one workflow overlapping or not.      *)
C5_NoTwoEntriesShareId ==
    \A e1, e2 \in repeatable : e1.id = e2.id => e1 = e2

-----------------------------------------------------------------------------
(* Pause and resume: the worker persists PauseStates of one run, resume    *)
(* requests consume them.                                                  *)

PausedWorkflow == NameId("workflow_", <<"a">>)
PausedJobs == {TimeId("webhook_exec_", 0), TimeId("webhook_exec_", 1)}
PauseStates ==
    {[context |-> Some({"n1"}), remainingActions |-> Some(<<"transfer">>),
      spreadsheetId |-> Null]}

ResumeRequests ==
    {ResumeReq(Some(PausedWorkflow), Some(j)) : j \in PausedJobs}
    \cup {PauseReq(PausedWorkflow, j, st) : j \in PausedJobs, st \in PauseStates}

ResumeSteps(p) ==
    \/ \E r \in ResumeRequests : ResumeBegin(p, r)
    \/ ResumeGet(p)
    \/ ResumeDel(p)
    \/ ResumeAdd(p)

\* resume requests that may overlap
NextResume ==
    \/ Tick
    \/ \E r \in ResumeRequests : WorkerPause(r)
    \/ \E p \in Procs : ResumeSteps(p)
SpecResume == Init /\ [][NextResume]_vars

\* resume requests one after the other
NextResumeSeq ==
    \/ Tick
    \/ \E r \in ResumeRequests : WorkerPause(r)
    \/ \E p \in SeqProcs : ResumeSteps(p)
SpecResumeSeq == Init /\ [][NextResumeSeq]_vars

IsResumeOf(e, w, j) == e.req.kind = "resume" /\ e.req.id = Some(w) /\ e.req.jobId = Some(j)
IsPauseOf(e, w, j) == e.req.kind = "pause" /\ e.req.id = Some(w) /\ e.req.jobId = Some(j)

(* C2: the queue never holds more resume ExecutionRequests than PauseStates *)
(* were persisted: each PauseState is turned into at most one.              *)
C2_OneResumePerPauseState ==
    Cardinality({j \in jobs : j.resume})
        <= Cardinality({i \in LogIdx : log[i].req.kind = "pause"})

(* C3: after a /resume-workflow request for (workflowId, jobId) was        *)
(* answered 202, every later request for the same pair that does not       *)
(* overlap it is answered 404 and hands nothing to the queue, unless a     *)
(* PauseState was persisted under the pair after the first request read    *)
(* the one it consumed.                                                    *)
C3_SecondResumeNotFound ==
    \A i, j \in LogIdx : \A job \in PausedJobs :
        (/\ i < j
         /\ IsResumeOf(log[i], PausedWorkflow, job) /\ log[i].status = 202
         /\ IsResumeOf(log[j], PausedWorkflow, job)
         /\ \A k \in (log[i].loc.since + 1)..(j - 1) :
               ~IsPauseOf(log[k], PausedWorkflow, job))
        => log[j].status = 404 /\ log[j].loc.enqueued = Null

\* a run was paused, resumed, and resumed again
C3_Witness ==
    \E job \in PausedJobs :
        /\ Len(log) = 3
        /\ IsPauseOf(log[1], PausedWorkflow, job)
        /\ IsResumeOf(log[2], PausedWorkflow, job) /\ log[2].status = 202
        /\ IsResumeOf(log[3], PausedWorkflow, job) /\ log[3].status = 404

-----------------------------------------------------------------------------
(* Manual runs: /trigger-workflow requests with neither a webhook nor a    *)
(* timer trigger, as deploys and as test runs, one request at a time.      *)

ManualNames == {<<"a">>, <<"B">>}
ManualRequests ==
    {TriggerReq(n, "manual", NoSchedule, Null, test, 1) :
        n \in ManualNames, test \in BOOLEAN}

NextManualSeq ==
    \/ Tick
    \/ \E p \in SeqProcs :
          \/ \E r \in ManualRequests : TriggerBegin(p, r)
          \/ TriggerSetConfig(p)
          \/ TriggerTestAdd(p)
          \/ TriggerJobAdd(p)
SpecManualSeq == Init /\ [][NextManualSeq]_vars

\* entry e is an accepted manual submission (not a test run) of workflow name n
IsManualSubmit(e, n) ==
    /\ e.req.kind = "trigger"
    /\ e.status = 202
    /\ ~IsWebhook(e.req) /\ ~IsTimer(e.req)
    /\ ~e.req.isTestRun
    /\ Val(e.req.config).workflowName = n

ManualJobs == {j \in jobs : j.jobId[1] = "job_"}

(* C9 as claimed: two submissions of the same manual workflow use the same *)
(* dedupe jobId, equal to the workflowId, and the queue holds one          *)
(* execution for them.                                                     *)
C9_ResubmitCoalesces ==
    \A i, j \in LogIdx : \A n \in ManualNames :
        (i < j /\ IsManualSubmit(log[i], n) /\ IsManualSubmit(log[j], n)) =>
            /\ log[i].loc.enqueued = log[j].loc.enqueued
            /\ Cardinality({job \in jobs : job.jobId \in
                    {Val(log[i].loc.enqueued), Val(log[j].loc.enqueued)}}) = 1

(* C9 amended: every manual submission is enqueued under a dedupe jobId    *)
(* equal to its own workflowId, job_<clock reading when it came in>; two   *)
(* submissions share that id, and one execution in the queue, exactly when *)
(* they read the same clock value, and otherwise the queue holds one       *)
(* execution for each.                                                     *)
C9_ManualJobIdIsOwnTimeId ==
    \A i, j \in LogIdx : \A n \in ManualNames :
        (i <= j /\ IsManualSubmit(log[i], n) /\ IsManualSubmit(log[j], n)) =>
            /\ log[j].loc.enqueued = log[j].loc.workflowId
            /\ log[j].loc.workflowId = Some(TimeId("job_", log[j].loc.receivedAt))
            /\ Cardinality({job \in jobs : job.jobId \in
                    {Val(log[i].loc.enqueued), Val(log[j].loc.enqueued)}})
                 = IF log[i].loc.receivedAt = log[j].loc.receivedAt THEN 1 ELSE 2

\* the same manual workflow submitted at two clock readings: two executions
C9_Witness ==
    \E n \in ManualNames :
        /\ Len(log) = 2
        /\ IsManualSubmit(log[1], n) /\ IsManualSubmit(log[2], n)
        /\ log[1].loc.enqueued # log[2].loc.enqueued
        /\ Cardinality(ManualJobs) = 2

-----------------------------------------------------------------------------
(* Identity derivation: deploys of webhook, timer and manual workflows     *)
(* under two names, one request at a time, at any clock reading.           *)

DeriveNames == {<<"a">>, <<"B", "-", "1">>}
TriggerTypes == {"webhook", "timer", "manual"}

DeriveRequests ==
    {TriggerReq(n, t, IF t = "timer" THEN EveryFive ELSE NoSchedule, Null, FALSE, 1) :
        n \in DeriveNames, t \in TriggerTypes}

NextDeriveSeq ==
    \/ Tick
    \/ \E p \in SeqProcs :
          \/ \E r \in DeriveRequests : TriggerBegin(p, r)
          \/ TriggerSetConfig(p)
          \/ TriggerClearTombstone(p)
          \/ TriggerList(p)
          \/ TriggerRemove(p)
          \/ TriggerRepeatAdd(p)
          \/ TriggerJobAdd(p)
SpecDeriveSeq == Init /\ [][NextDeriveSeq]_vars

\* entries i and j are /trigger-workflow requests of trigger type t and name n
SameTypeAndName(i, j, t, n) ==
    /\ log[i].req.kind = "trigger" /\ log[j].req.kind = "trigger"
    /\ TriggerType(log[i].req) = t /\ TriggerType(log[j].req) = t
    /\ Val(log[i].req.config).workflowName = n
    /\ Val(log[j].req.config).workflowName = n

\* the prefix of the ids of a trigger class
PrefixOf(t) ==
    IF t = "webhook" THEN "workflow_" ELSE IF t = "timer" THEN "cron_workflow_" ELSE "job_"

(* C12 as claimed: two /trigger-workflow requests with the same trigger    *)
(* type and name derive the same workflowId, whenever they are made, and   *)
(* the id starts with the prefix of its trigger class.                     *)
C12_DeriveIdDeterministic ==
    \A i, j \in LogIdx : \A t \in TriggerTypes : \A n \in DeriveNames :
        (i < j /\ SameTypeAndName(i, j, t, n)) =>
            /\ log[i].loc.workflowId = log[j].loc.workflowId
            /\ Val(log[j].loc.workflowId)[1] = PrefixOf(t)

(* C12 amended: the workflowId of a webhook or timer request is the prefix *)
(* of its class followed by the sanitized name, the same whenever the      *)
(* request is made; the workflowId of a manual request is job_ followed by *)
(* the clock reading when it came in, so that two manual requests of one   *)
(* name derive the same id exactly when they read the same clock value.    *)
C12_DeriveIdByTriggerClass ==
    \A i, j \in LogIdx : \A t \in TriggerTypes : \A n \in DeriveNames :
        (i <= j /\ SameTypeAndName(i, j, t, n)) =>
            /\ Val(log[j].loc.workflowId)[1] = PrefixOf(t)
            /\ IF t = "manual"
               THEN /\ log[j].loc.workflowId = Some(TimeId("job_", log[j].loc.receivedAt))
                    /\ (log[i].loc.workflowId = log[j].loc.workflowId)
                          <=> (log[i].loc.receivedAt = log[j].loc.receivedAt)
               ELSE /\ log[j].loc.workflowId = Some(NameId(PrefixOf(t), SafeName(n)))
                    /\ log[i].loc.workflowId = log[j].loc.workflowId

\* a timer workflow deployed twice under one id, a manual one twice under two
C12_Witness ==
    \E n \in DeriveNames :
        /\ Len(log) = 4
        /\ SameTypeAndName(1, 2, "timer", n)
        /\ log[1].loc.workflowId = log[2].loc.workflowId
        /\ SameTypeAndName(3, 4, "manual", n)
        /\ log[3].loc.workflowId # log[4].loc.workflowId

-----------------------------------------------------------------------------
(* Test runs: "run now" requests of a webhook, a timer and a manual        *)
(* workflow, next to ordinary deploys of the timer workflow, one request   *)
(* at a time, at any clock reading.                                        *)

TestRunRequests ==
    {TriggerReq(TimerName, t, IF t = "timer" THEN AtNoon ELSE NoSchedule, Null, TRUE, 1) :
        t \in TriggerTypes}
    \cup {TriggerReq(TimerName, "timer", EveryFive, Null, FALSE, 1)}

NextTestRunSeq ==
    \/ Tick
    \/ \E p \in SeqProcs :
          \/ \E r \in TestRunRequests : TriggerBegin(p, r)
          \/ TriggerSetConfig(p)
          \/ TriggerClearTombstone(p)
          \/ TriggerTestAdd(p)
          \/ TriggerList(p)
          \/ TriggerRemove(p)
          \/ TriggerRepeatAdd(p)
SpecTestRunSeq == Init /\ [][NextTestRunSeq]_vars

\* entry e is a test-run request
IsTestRun(e) == e.req.kind = "trigger" /\ e.req.isTestRun

\* the handler of a test run is never at a step on the recurring entries
TestRunSkipsSchedule ==
    \A p \in Procs :
        req[p].isTestRun => pc[p] \notin {"t_list", "t_remove", "t_repeatadd"}

\* the job that test run e asked the queue to add is queued as e asked
TestRunJobQueued(e) ==
    \E job \in jobs :
        /\ Some(job.jobId) = e.loc.enqueued
        /\ job.executionId = e.loc.enqueued
        /\ Some(job.workflowId) = e.loc.workflowId
        /\ job.jobId # job.workflowId
        /\ "WebhookBody" \in job.context
        /\ e.req.context \subseteq job.context

(* C13: a test run never lists, removes or inserts a recurring entry,      *)
(* whatever its trigger type, and puts exactly one job into the queue,     *)
(* whose dedupe jobId and executionId are one id different from the        *)
(* workflowId and from the id of every earlier test run, with WebhookBody  *)
(* added to the context.                                                   *)
C13_TestRunEnqueuesFreshJob ==
    /\ TestRunSkipsSchedule
    /\ \A j \in LogIdx :
          IsTestRun(log[j]) =>
              /\ log[j].status = 202
              /\ log[j].loc.added = 1
              /\ TestRunJobQueued(log[j])
              /\ \A i \in 1..(j - 1) :
                    IsTestRun(log[i]) => log[i].loc.enqueued # log[j].loc.enqueued

-----------------------------------------------------------------------------
(* Webhook deploys: deploys, redeploys and renames of webhook workflows    *)
(* with two versions of their config, and a test run, one at a time.       *)

Bodies == {1, 2}

DeployRequests ==
    {TriggerReq(n, "webhook", NoSchedule, prev, FALSE, b) :
        n \in WebhookNames, b \in Bodies,
        prev \in {Null, Some(NameId("workflow_", <<"a">>))}}
    \cup {TriggerReq(<<"a">>, "webhook", NoSchedule, Null, TRUE, 1)}

NextDeploySeq ==
    \E p \in SeqProcs :
        \/ \E r \in DeployRequests : TriggerBegin(p, r)
        \/ TriggerTombstone(p)
        \/ TriggerDelPrevious(p)
        \/ TriggerSetConfig(p)
        \/ TriggerClearTombstone(p)
        \/ TriggerTestAdd(p)
SpecDeploySeq == Init /\ [][NextDeploySeq]_vars

\* entry k is a webhook request that activated or retired id w
Touches(k, w) ==
    /\ log[k].req.kind = "trigger" /\ IsWebhook(log[k].req)
    /\ log[k].loc.workflowId = Some(w) \/ log[k].req.previousWorkflowId = Some(w)

\* the last request that touched w, 0 if there is none
LastTouch(w) ==
    IF \E k \in LogIdx : Touches(k, w)
    THEN CHOOSE k \in LogIdx : Touches(k, w) /\ \A m \in LogIdx : Touches(m, w) => m <= k
    ELSE 0

\* what the store holds for w is what the last request touching w alone leaves
StoreIsLastDeploy(w) ==
    LET k == LastTouch(w)
    IN  IF k = 0 THEN ~Has(config, w) /\ ~Has(tombstone, w)
        ELSE IF log[k].loc.workflowId = Some(w)
        THEN /\ Get(config, w) = log[k].req.config
             /\ ~Has(tombstone, w)
        ELSE /\ ~Has(config, w)
             /\ Get(tombstone, w) = Some([status |-> "renamed",
                                          newWorkflowId |-> Val(log[k].loc.workflowId)])

(* C14: a webhook deploy that is not a test run hands nothing to the queue *)
(* (no job, no recurring entry) and answers with the callback URL of       *)
(* workflow_<sanitized name>, the same at every deploy of that name; and   *)
(* after any deploys the store holds, for every id, exactly what the last  *)
(* deploy touching that id alone would leave: the latest config under      *)
(* workflow_config:workflow_<name>, overwritten in place.                  *)
C14_WebhookDeployIdempotent ==
    /\ repeatable = {}
    /\ \A j \in LogIdx :
          (IsWebhookDeploy(log[j]) /\ ~log[j].req.isTestRun) =>
              /\ log[j].loc.enqueued = Null /\ log[j].loc.added = 0
              /\ log[j].loc.url = Some(WebhookUrl(
                     NameId("workflow_", SafeName(Val(log[j].req.config).workflowName))))
    /\ Cardinality(jobs) <= Cardinality({j \in LogIdx : log[j].req.isTestRun})
    /\ Idle => /\ DOMAIN config \subseteq WebhookIds
               /\ DOMAIN tombstone \subseteq WebhookIds
               /\ \A w \in WebhookIds : StoreIsLastDeploy(w)

\* one name deployed with one config, then with another: the latest is stored
C14_Witness ==
    \E n \in WebhookNames :
        /\ Idle /\ Len(log) = 2
        /\ IsWebhookDeploy(log[1]) /\ IsWebhookDeploy(log[2])
        /\ Val(log[1].req.config).workflowName = n
        /\ Val(log[2].req.config).workflowName = n
        /\ Val(log[1].req.config).body = 1 /\ Val(log[2].req.config).body = 2
        /\ log[1].loc.url = log[2].loc.url
        /\ Get(config, NameId("workflow_", SafeName(n))) = log[2].req.config
        /\ jobs = {}

-----------------------------------------------------------------------------
(* Timer configurations: timer deploys of one workflow with well-formed,   *)
(* fractional, incomplete and unknown schedules, and a test run of an      *)
(* incomplete one, one request at a time.                                  *)

OneAndHalf ==
    [scheduleType |-> "interval", intervalMinutes |-> <<"1", ".", "5">>, cronExpression |-> ""]
HalfMinute ==
    [scheduleType |-> "interval", intervalMinutes |-> <<"0", ".", "5">>, cronExpression |-> ""]
CronNoExpression == [scheduleType |-> "cron", intervalMinutes |-> <<"5">>, cronExpression |-> ""]
Daily == [scheduleType |-> "daily", intervalMinutes |-> <<"5">>, cronExpression |-> "0 12 * * *"]

ScheduleRequests ==
    {TriggerReq(TimerName, "timer", sched, Null, FALSE, 1) :
        sched \in {EveryFive, OneAndHalf, HalfMinute, AtNoon, NoMinutes, CronNoExpression, Daily}}
    \cup {TriggerReq(TimerName, "timer", NoMinutes, Null, TRUE, 1)}

NextScheduleSeq ==
    \E p \in SeqProcs :
        \/ \E r \in ScheduleRequests : TriggerBegin(p, r)
        \/ TriggerSetConfig(p)
        \/ TriggerTestAdd(p)
        \/ TriggerList(p)
        \/ TriggerRemove(p)
        \/ TriggerRepeatAdd(p)
SpecScheduleSeq == Init /\ [][NextScheduleSeq]_vars

\* n * 60000 for the decimal number n written as s (at most one decimal)
MinutesInMs(s) ==
    LET whole == LeadingDigits(s, 1, 0)
        tenth == IF \E i \in 1..(Len(s) - 1) : s[i] = "."
                 THEN DigitValue(s[(CHOOSE i \in 1..(Len(s) - 1) : s[i] = ".") + 1])
                 ELSE 0
    IN  whole * 60000 + tenth * 6000

(* C15: after an accepted timer deploy with scheduleType=interval and      *)
(* intervalMinutes=n, a recurring entry with id cron_workflow_<name> has   *)
(* the period n*60000 ms, a positive whole number; after one with          *)
(* scheduleType=cron, a recurring entry has cronExpression as its pattern. *)
C15_PeriodIsMinutesInMs ==
    (Idle /\ Len(log) > 0 /\ IsTimerDeploy(log[Len(log)], CronId)) =>
        LET sched == Val(log[Len(log)].req.config).schedule
        IN  /\ sched.scheduleType = "interval" =>
                  \E e \in EntriesOf(CronId) :
                      /\ e.every = MinutesInMs(sched.intervalMinutes)
                      /\ e.every > 0
            /\ sched.scheduleType = "cron" =>
                  \E e \in EntriesOf(CronId) : e.pattern = sched.cronExpression

\* a timer request that is not a test run and whose scheduleType is neither
\* cron nor interval, or whose required field is absent
InvalidTimer(r) ==
    /\ r.kind = "trigger" /\ IsSome(r.config) /\ IsTimer(r) /\ ~r.isTestRun
    /\ LET sched == Val(r.config).schedule
       IN  \/ sched.scheduleType \notin {"cron", "interval"}
           \/ sched.scheduleType = "cron" /\ sched.cronExpression = ""
           \/ sched.scheduleType = "interval" /\ sched.intervalMinutes = <<>>

(* C16: from the receipt of an invalid timer deploy to its response, no    *)
(* step changes the queue (no job or recurring entry is added, removed or  *)
(* replaced), and the response is 400 with nothing handed to the queue.    *)
C16_InvalidTimerLeavesQueue ==
    [][\A p \in SeqProcs :
          (pc[p] # "idle" /\ InvalidTimer(req[p])) =>
              /\ jobs' = jobs
              /\ repeatable' = repeatable
              /\ pc'[p] = "idle" =>
                    /\ Len(log') = Len(log) + 1
                    /\ log'[Len(log')].req = req[p]
                    /\ log'[Len(log')].status = 400
                    /\ log'[Len(log')].loc.enqueued = Null]_vars

\* a schedule exists, an invalid redeploy was rejected, the schedule is still there
C16_Witness ==
    /\ Idle /\ Len(log) = 2
    /\ IsTimerDeploy(log[1], CronId) /\ Val(log[1].req.config).schedule = EveryFive
    /\ InvalidTimer(log[2].req) /\ log[2].status = 400
    /\ \E e \in repeatable : e.id = CronId /\ e.every = 300000
    /\ Cardinality(repeatable) = 1
    /\ jobs = {}

-----------------------------------------------------------------------------
(* POST, GET and DELETE /workflow-state: the saved editor states *)

\* JSON.stringify(v), and JSON.parse(raw): Null when raw is not JSON
Stringify(v) == <<"json", v>>
Parse(raw) == IF raw[1] = "json" THEN Some(raw[2]) ELSE Null

\* String(name).replace(/[^a-zA-Z0-9]/g, '_').toLowerCase()
StateKey(name) == [i \in 1..Len(name) |-> SafeChar(name[i])]

\* body of POST /workflow-state
SaveReq(name, nodes, edges, globalSettings, workflowId) ==
    [kind |-> "save",
     config |-> Some([name |-> name, nodes |-> nodes, edges |-> edges,
                      globalSettings |-> globalSettings]),
     context |-> {}, isTestRun |-> FALSE, previousWorkflowId |-> Null,
     id |-> workflowId, jobId |-> Null]

\* GET /workflow-state/:name
LoadReq(name) ==
    [kind |-> "load", config |-> Null, context |-> {}, isTestRun |-> FALSE,
     previousWorkflowId |-> Null, id |-> Some(name), jobId |-> Null]

\* DELETE /workflow-state/:name
DeleteStateReq(name) ==
    [kind |-> "deletestate", config |-> Null, context |-> {}, isTestRun |-> FALSE,
     previousWorkflowId |-> Null, id |-> Some(name), jobId |-> Null]

\* !name || !Array.isArray(nodes) || !Array.isArray(edges): 400
SaveBegin(p, r) ==
    /\ r.kind = "save"
    /\ UNCHANGED <<modal, delivered, worker, saved, bridge, clock, config, tombstone, pause, jobs, repeatable>>
    /\ LET body == Val(r.config)
       IN  IF body.name = <<>> \/ ~IsSome(body.nodes) \/ ~IsSome(body.edges)
           THEN /\ CanStart(p)
                /\ Respond(p, r, NoLoc, 400)
           ELSE Begin(p, r, NoLoc, "s_get")

\* the payload built from the request and from what is stored under the key
SavePayload(r, existingRaw, createdAt, now) ==
    LET body == Val(r.config)
        existing == IF IsSome(existingRaw) THEN Parse(Val(existingRaw)) ELSE Null
    IN  [id |-> IF IsSome(r.id) THEN Val(r.id)
                ELSE NameId("workflow_", StateKey(body.name)),
         name |-> body.name,
         nodes |-> Val(body.nodes),
         edges |-> Val(body.edges),
         globalSettings |-> IF IsSome(body.globalSettings)
                            THEN Val(body.globalSettings) ELSE {},
         version |-> IF IsSome(existing) THEN Val(existing).version + 1 ELSE 1,
         createdAt |-> IF IsSome(existing) THEN Val(existing).createdAt ELSE createdAt,
         updatedAt |-> now]

\* a slip: createdAt renewed at every save
SaveGetRenewed(p) ==
    /\ pc[p] = "s_get"
    /\ LET existingRaw == Get(saved, StateKey(Val(req[p].config).name))
           payload == SavePayload(req[p], existingRaw, loc[p].receivedAt, clock)
       IN  Goto(p, [loc[p] EXCEPT !.found = existingRaw, !.lookups = @ + 1,
                                  !.stored = Some([payload EXCEPT !.createdAt = clock])],
                "s_set")
    /\ UNCHANGED <<modal, delivered, worker, saved, bridge, clock, config, tombstone, pause, jobs, repeatable>>

\* existingRaw = redisConnection.get(storageKey); version, createdAt, payload
SaveGet(p) ==
    /\ pc[p] = "s_get"
    /\ LET existingRaw == Get(saved, StateKey(Val(req[p].config).name))
           payload == SavePayload(req[p], existingRaw, loc[p].receivedAt, clock)
       IN  Goto(p, [loc[p] EXCEPT !.found = existingRaw, !.lookups = @ + 1,
                                  !.stored = Some(payload)],
                "s_set")
    /\ UNCHANGED <<modal, delivered, worker, saved, bridge, clock, config, tombstone, pause, jobs, repeatable>>

\* redisConnection.set(storageKey, JSON.stringify(payload))
SaveSet(p) ==
    /\ pc[p] = "s_set"
    /\ saved' = Set(saved, StateKey(Val(req[p].config).name), Stringify(Val(loc[p].stored)))
    /\ Respond(p, req[p], loc[p], 200)
    /\ UNCHANGED <<modal, delivered, worker, bridge, clock, config, tombstone, pause, jobs, repeatable>>

LoadBegin(p, r) ==
    /\ r.kind = "load"
    /\ UNCHANGED <<modal, delivered, worker, saved, bridge, clock, config, tombstone, pause, jobs, repeatable>>
    /\ IF Val(r.id) = <<>>
       THEN /\ CanStart(p)
            /\ Respond(p, r, NoLoc, 400)
       ELSE Begin(p, r, NoLoc, "l_get")

\* existingRaw = redisConnection.get(storageKey): 404, 500 or the parsed workflow
LoadGet(p) ==
    /\ pc[p] = "l_get"
    /\ LET existingRaw == Get(saved, StateKey(Val(req[p].id)))
           l == [loc[p] EXCEPT !.found = existingRaw, !.lookups = @ + 1]
       IN  IF ~IsSome(existingRaw) THEN Respond(p, req[p], l, 404)
           ELSE IF ~IsSome(Parse(Val(existingRaw))) THEN Respond(p, req[p], l, 500)
           ELSE Respond(p, req[p], [l EXCEPT !.stored = Parse(Val(existingRaw))], 200)
    /\ UNCHANGED <<modal, delivered, worker, saved, bridge, clock, config, tombstone, pause, jobs, repeatable>>

DeleteStateBegin(p, r) ==
    /\ r.kind = "deletestate"
    /\ UNCHANGED <<modal, delivered, worker, saved, bridge, clock, config, tombstone, pause, jobs, repeatable>>
    /\ IF Val(r.id) = <<>>
       THEN /\ CanStart(p)
            /\ Respond(p, r, NoLoc, 400)
       ELSE Begin(p, r, NoLoc, "d_del")

\* deletedCount = redisConnection.del(storageKey)
DeleteStateDel(p) ==
    /\ pc[p] = "d_del"
    /\ saved' = Del(saved, StateKey(Val(req[p].id)))
    /\ Respond(p, req[p], [loc[p] EXCEPT !.found = Get(saved, StateKey(Val(req[p].id)))], 200)
    /\ UNCHANGED <<modal, delivered, worker, bridge, clock, config, tombstone, pause, jobs, repeatable>>

-----------------------------------------------------------------------------
(* Editor states: saves of one workflow under two spellings of its name,   *)
(* a save without nodes, loads and a delete, at any clock reading.         *)

EditorRequests ==
    {SaveReq(<<"a">>, Some(<<"n1">>), Some(<<>>), Some({"dark"}), Null),
     SaveReq(<<"A">>, Some(<<"n1", "n2">>), Some(<<"e1">>), Null,
             Some(NameId("workflow_", <<"x">>))),
     SaveReq(<<"a">>, Null, Some(<<>>), Null, Null),
     LoadReq(<<"a">>),
     LoadReq(<<"B">>),
     DeleteStateReq(<<"A">>)}

EditorSteps(p) ==
    \/ \E r \in EditorRequests : SaveBegin(p, r)
    \/ SaveGet(p)
    \/ SaveSet(p)
    \/ \E r \in EditorRequests : LoadBegin(p, r)
    \/ LoadGet(p)
    \/ \E r \in EditorRequests : DeleteStateBegin(p, r)
    \/ DeleteStateDel(p)

\* requests that may overlap
NextEditor == Tick \/ \E p \in Procs : EditorSteps(p)
SpecEditor == Init /\ [][NextEditor]_vars

\* requests one after the other
NextEditorSeq == Tick \/ \E p \in SeqProcs : EditorSteps(p)
SpecEditorSeq == Init /\ [][NextEditorSeq]_vars

\* the storage key a logged editor request is about
KeyOf(e) ==
    IF e.req.kind = "save" THEN StateKey(Val(e.req.config).name) ELSE StateKey(Val(e.req.id))

\* entry e is a completed save, or a delete, of the state stored under key k
IsSaveOf(e, k) == e.req.kind = "save" /\ e.status = 200 /\ KeyOf(e) = k
IsDeleteOf(e, k) == e.req.kind = "deletestate" /\ KeyOf(e) = k
IsLoadOf(e, k) == e.req.kind = "load" /\ KeyOf(e) = k

\* no save and no delete of key k was answered strictly between i and j
UntouchedBetween(i, j, k) ==
    \A m \in (i + 1)..(j - 1) : ~IsSaveOf(log[m], k) /\ ~IsDeleteOf(log[m], k)

EditorKeys == {StateKey(<<"a">>), StateKey(<<"B">>)}

(* C17: a load that follows a save of the same (sanitized) name, with no   *)
(* save or delete of it in between, is answered with the nodes, edges and  *)
(* globalSettings of that save; a save that follows a save of the same     *)
(* name, with none in between, stores a version 1 greater and the same     *)
(* createdAt.                                                              *)
C17_SaveLoadRoundTrip ==
    \A i, j \in LogIdx : \A k \in EditorKeys :
        (i < j /\ IsSaveOf(log[i], k) /\ UntouchedBetween(i, j, k)) =>
            LET body == Val(log[i].req.config)
                first == Val(log[i].loc.stored)
            IN  /\ IsLoadOf(log[j], k) =>
                      /\ log[j].status = 200
                      /\ Val(log[j].loc.stored).nodes = Val(body.nodes)
                      /\ Val(log[j].loc.stored).edges = Val(body.edges)
                      /\ Val(log[j].loc.stored).globalSettings =
                            IF IsSome(body.globalSettings) THEN Val(body.globalSettings) ELSE {}
                /\ IsSaveOf(log[j], k) =>
                      /\ Val(log[j].loc.stored).version = first.version + 1
                      /\ Val(log[j].loc.stored).createdAt = first.createdAt

\* saved, saved again a millisecond later under another spelling, then loaded
C17_Witness ==
    /\ Len(log) = 3
    /\ IsSaveOf(log[1], StateKey(<<"a">>)) /\ IsSaveOf(log[2], StateKey(<<"a">>))
    /\ Val(log[1].loc.stored).createdAt = 0
    /\ Val(log[2].loc.stored).updatedAt = 1
    /\ Val(log[2].loc.stored).createdAt = 0
    /\ Val(log[2].loc.stored).version = 2
    /\ IsLoadOf(log[3], StateKey(<<"a">>))
    /\ Val(log[3].loc.stored).nodes = Val(Val(log[2].req.config).nodes)
    /\ Val(log[3].loc.stored).nodes # Val(Val(log[1].req.config).nodes)

(* C18: the version stored by a completed save is strictly greater than    *)
(* the version stored by every save of the same name completed before it,  *)
(* whatever saves, deletes and loads were made and however they overlap.   *)
C18_VersionIncreases ==
    \A i, j \in LogIdx : \A k \in EditorKeys :
        (i < j /\ IsSaveOf(log[i], k) /\ IsSaveOf(log[j], k)) =>
            Val(log[j].loc.stored).version > Val(log[i].loc.stored).version

-----------------------------------------------------------------------------
(* The bridge from the workflow_events channel to the sockets.  Its        *)
(* handlers are synchronous: each runs to its end in one step, and each    *)
(* step is logged like a request.                                          *)

\* a socket event: connection, subscribe_job(jobId), disconnect
SocketReq(kind, socket, jobId) ==
    [kind |-> kind, config |-> Null, context |-> {}, isTestRun |-> FALSE,
     previousWorkflowId |-> Null, id |-> Some(socket), jobId |-> jobId]

\* a message the subscriber connection receives on a channel
MessageReq(channel, message) ==
    [kind |-> "message", config |-> Some(message), context |-> {}, isTestRun |-> FALSE,
     previousWorkflowId |-> Null, id |-> Some(channel), jobId |-> Null]

\* a step of the bridge is logged
Logged(r) ==
    /\ Len(log) + Cardinality(InFlight) < MaxLog
    /\ log' = Append(log, [req |-> r, loc |-> NoLoc, status |-> 0])

\* the room every socket is in from its connection on: the one of its own id
OwnRoom(socket) == <<"socket", <<>>, socket>>

\* io.on('connection')
Connect(r) ==
    /\ r.kind = "connect"
    /\ ~Has(rooms, Val(r.id))
    /\ rooms' = Set(rooms, Val(r.id), {OwnRoom(Val(r.id))})
    /\ Logged(r)
    /\ UNCHANGED <<modal, delivered, worker, saved, emitted, clock, config, tombstone, pause, jobs, repeatable,
                   pc, req, loc>>

\* socket.on('subscribe_job'): if (jobId) socket.join(jobId)
SubscribeJob(r) ==
    /\ r.kind = "subscribe"
    /\ Has(rooms, Val(r.id))
    /\ rooms' = IF IsSome(r.jobId)
                THEN Set(rooms, Val(r.id), rooms[Val(r.id)] \cup {Val(r.jobId)})
                ELSE rooms
    /\ Logged(r)
    /\ UNCHANGED <<modal, delivered, worker, saved, emitted, clock, config, tombstone, pause, jobs, repeatable,
                   pc, req, loc>>

\* socket.on('disconnect'): the socket has left all its rooms
Disconnect(r) ==
    /\ r.kind = "disconnect"
    /\ Has(rooms, Val(r.id))
    /\ rooms' = Del(rooms, Val(r.id))
    /\ Logged(r)
    /\ UNCHANGED <<modal, delivered, worker, saved, emitted, clock, config, tombstone, pause, jobs, repeatable,
                   pc, req, loc>>

\* event.jobId, undefined (a room nobody can join) when the event has none
RoomOf(event) == IF IsSome(event.jobId) THEN Val(event.jobId) ELSE Null

\* io.to(event.jobId).emit('workflow_update', event) as the n-th logged step
Emit(event, n) ==
    {[n |-> n, socket |-> sk, event |-> event] :
        sk \in {x \in DOMAIN rooms : RoomOf(event) \in rooms[x]}}

\* what each socket has been sent, once the sockets of recipients got event
Deliver(recipients, event) ==
    [sk \in DOMAIN delivered \cup recipients |->
        IF sk \in recipients
        THEN Append(IF sk \in DOMAIN delivered THEN delivered[sk] ELSE <<>>, event)
        ELSE delivered[sk]]

\* the sockets in the room of the event
Receivers(event) == {x \in DOMAIN rooms : RoomOf(event) \in rooms[x]}

\* a slip: the event goes to every connected socket
MessageToAll(r) ==
    /\ r.kind = "message"
    /\ LET event == Parse(Val(r.config))
       IN  /\ emitted' =
             IF Val(r.id) = "workflow_events" /\ IsSome(event)
             THEN emitted \cup {[n |-> Len(log) + 1, socket |-> sk, event |-> Val(event)] :
                                   sk \in DOMAIN rooms}
             ELSE emitted
           /\ delivered' =
                 IF Val(r.id) = "workflow_events" /\ IsSome(event)
                 THEN Deliver(DOMAIN rooms, Val(event))
                 ELSE delivered
    /\ Logged(r)
    /\ UNCHANGED <<modal, worker, saved, rooms, clock, config, tombstone, pause, jobs, repeatable,
                   pc, req, loc>>

\* a slip: a message that does not parse ends the process and its sockets
MessageUncaught(r) ==
    /\ r.kind = "message"
    /\ LET event == Parse(Val(r.config))
       IN  IF Val(r.id) = "workflow_events" /\ ~IsSome(event)
           THEN rooms' = <<>> /\ emitted' = emitted /\ delivered' = delivered
           ELSE /\ rooms' = rooms
                /\ emitted' =
                      IF Val(r.id) = "workflow_events"
                      THEN emitted \cup Emit(Val(event), Len(log) + 1)
                      ELSE emitted
                /\ delivered' =
                      IF Val(r.id) = "workflow_events"
                      THEN Deliver(Receivers(Val(event)), Val(event))
                      ELSE delivered
    /\ Logged(r)
    /\ UNCHANGED <<modal, worker, saved, clock, config, tombstone, pause, jobs, repeatable, pc, req, loc>>

\* a slip: an event overtakes the events sent before it
MessageNewestFirst(r) ==
    /\ r.kind = "message"
    /\ LET event == Parse(Val(r.config))
       IN  /\ emitted' =
                 IF Val(r.id) = "workflow_events" /\ IsSome(event)
                 THEN emitted \cup Emit(Val(event), Len(log) + 1)
                 ELSE emitted
           /\ delivered' =
                 IF Val(r.id) = "workflow_events" /\ IsSome(event)
                 THEN [sk \in DOMAIN delivered \cup Receivers(Val(event)) |->
                         IF sk \in Receivers(Val(event))
                         THEN <<Val(event)>> \o (IF sk \in DOMAIN delivered
                                                 THEN delivered[sk] ELSE <<>>)
                         ELSE delivered[sk]]
                 ELSE delivered
    /\ Logged(r)
    /\ UNCHANGED <<modal, worker, saved, rooms, clock, config, tombstone, pause, jobs, repeatable,
                   pc, req, loc>>

\* redisSubscriber.on('message'): parse, emit to the room event.jobId; a
\* message that does not parse is logged and dropped
Message(r) ==
    /\ r.kind = "message"
    /\ LET event == Parse(Val(r.config))
       IN  /\ emitted' =
                 IF Val(r.id) = "workflow_events" /\ IsSome(event)
                 THEN emitted \cup Emit(Val(event), Len(log) + 1)
                 ELSE emitted
           /\ delivered' =
                 IF Val(r.id) = "workflow_events" /\ IsSome(event)
                 THEN Deliver(Receivers(Val(event)), Val(event))
                 ELSE delivered
    /\ Logged(r)
    /\ UNCHANGED <<modal, worker, saved, rooms, clock, config, tombstone, pause, jobs, repeatable,
                   pc, req, loc>>

-----------------------------------------------------------------------------
(* Event fan-out: two sockets connect, watch jobs and disconnect while     *)
(* events for two jobs, an event without jobId, a message that is no JSON  *)
(* and a message on another channel arrive.                                *)

Sockets == {1, 2}
JobRooms == {TimeId("job_", 0), NameId("workflow_", <<"a">>)}
Event(jobId) == [jobId |-> jobId, type |-> "node_completed"]
NotJson == <<"text", "{oops">>

BridgeRequests ==
    {SocketReq(k, sk, Null) : k \in {"connect", "disconnect"}, sk \in Sockets}
    \cup {SocketReq("subscribe", sk, Some(room)) : sk \in Sockets, room \in JobRooms}
    \cup {SocketReq("subscribe", 1, Null)}
    \cup {MessageReq("workflow_events", Stringify(Event(Some(room)))) : room \in JobRooms}
    \cup {MessageReq("workflow_events", Stringify(Event(Null))),
          MessageReq("workflow_events", NotJson),
          MessageReq("other_events", Stringify(Event(Some(TimeId("job_", 0)))))}

NextBridge ==
    \E r \in BridgeRequests :
        \/ Connect(r)
        \/ SubscribeJob(r)
        \/ Disconnect(r)
        \/ Message(r)
SpecBridge == Init /\ [][NextBridge]_vars

\* the n-th logged step is a message on the workflow_events channel
IsEventMessage(n) ==
    log[n].req.kind = "message" /\ log[n].req.id = Some("workflow_events")

\* the n-th logged step is a well-formed event for the job of a room
IsEventFor(n, room) ==
    /\ IsEventMessage(n)
    /\ log[n].req.config = Some(Stringify(Event(Some(room))))

\* the sockets that subscribed to room before step n and are still connected
Watchers(n, room) ==
    {sk \in Sockets :
        \E i \in 1..(n - 1) :
            /\ log[i].req = SocketReq("subscribe", sk, Some(room))
            /\ \A m \in (i + 1)..(n - 1) : log[m].req # SocketReq("disconnect", sk, Null)}

\* the workflow_update emissions of step n, and the sockets they went to
EmissionsOf(n) == {x \in emitted : x.n = n}
Recipients(n) == {x.socket : x \in EmissionsOf(n)}

(* C19: an event published on workflow_events is emitted, as it is, to     *)
(* exactly the sockets that subscribed to its jobId and are still          *)
(* connected; a message on another channel is emitted to nobody.           *)
C19_EventsReachExactlyWatchers ==
    \A n \in LogIdx :
        /\ \A room \in JobRooms :
              IsEventFor(n, room) =>
                  /\ Recipients(n) = Watchers(n, room)
                  /\ \A x \in EmissionsOf(n) : x.event = Event(Some(room))
        /\ (log[n].req.kind = "message" /\ ~IsEventMessage(n)) => Recipients(n) = {}

\* two sockets connected, one of them watching the job of the event
C19_Witness ==
    \E room \in JobRooms :
        /\ Len(log) = 4
        /\ DOMAIN rooms = Sockets
        /\ IsEventFor(4, room)
        /\ Cardinality(Watchers(4, room)) = 1
        /\ Recipients(4) = Watchers(4, room)

(* C20: a message on workflow_events that is no JSON is emitted to nobody, *)
(* and the events published after it still reach the sockets watching      *)
(* their jobs.                                                             *)
C20_MalformedMessageDropped ==
    \A n \in LogIdx :
        (IsEventMessage(n) /\ ~IsSome(Parse(Val(log[n].req.config)))) =>
            /\ Recipients(n) = {}
            /\ \A m \in (n + 1)..Len(log) : \A room \in JobRooms :
                  IsEventFor(m, room) => Watchers(m, room) \subseteq Recipients(m)

\* a socket watches a job, a malformed message arrives, then an event of the job
C20_Witness ==
    \E room \in JobRooms :
        /\ Len(log) = 4
        /\ IsEventMessage(3) /\ log[3].req.config = Some(NotJson)
        /\ IsEventFor(4, room)
        /\ Watchers(4, room) # {}
        /\ Recipients(4) = Watchers(4, room)
        /\ Recipients(3) = {}

-----------------------------------------------------------------------------
(* The execution worker.  It takes the jobs of workflow-queue one at a     *)
(* time.  Two processors take jobs: the processor that only records the    *)
(* time of the run, and the coordinator that drives the action list of the *)
(* workflow, pauses a run at a guardrail and publishes the events of the   *)
(* run on workflow_events.  A run is kept under the dedupe jobId of its    *)
(* job: the actions still to run, those that ran, the context, the state   *)
(* of the run, the state the queue gives the job, how often the job was    *)
(* started, and the error that ended the run.                              *)

\* new Date().toISOString()
IsoTime(t) == <<"iso", t>>

Run(job, state, todo, done, context, queueState) ==
    [workflowId |-> job.workflowId, jobId |-> job.jobId, state |-> state,
     todo |-> todo, done |-> done, context |-> context,
     queueState |-> queueState, attempts |-> 1, error |-> Null]

\* a job waits in the queue until a processor has taken it
Queued(job) == job \in jobs /\ ~Has(runs, job.jobId)

\* a slip: the processed job leaves an emptied configuration behind
ProcessIntoConfig(job) ==
    /\ Queued(job)
    /\ config' = Set(config, job.workflowId,
                     [workflowName |-> <<>>, trigger |-> "manual",
                      schedule |-> NoSchedule, body |-> <<>>])
    /\ runs' = Set(runs, job.jobId, Run(job, "completed", <<>>, <<>>, job.context, "completed"))
    /\ UNCHANGED <<modal, delivered, saved, bridge, clock, lastRun, published, tombstone, pause, jobs,
                   repeatable, pc, req, loc, log>>

\* the processor: redis.set(`workflow:last_run:${workflowId}`, now); return {success: true}
Process(job) ==
    /\ Queued(job)
    /\ lastRun' = Set(lastRun, job.workflowId, IsoTime(clock))
    /\ runs' = Set(runs, job.jobId, Run(job, "completed", <<>>, <<>>, job.context, "completed"))
    /\ UNCHANGED <<modal, delivered, saved, bridge, clock, published, config, tombstone, pause, jobs,
                   repeatable, pc, req, loc, log>>

\* the error of the transfer guardrail: balance < amount throws
\* `[ACTION_REQUIRED] ${JSON.stringify(errorPayload)}`
ActionRequiredPrefix == "[ACTION_REQUIRED] "

\* a token of the registry: its symbol, address, decimals and native flag.
\* The decimals are kept small, so that amounts in base units stay small.
Ether == [symbol |-> "ETH", address |-> "0xEeee", decimals |-> 0, isNative |-> TRUE]
Usdc == [symbol |-> "USDC", address |-> "0xA0b8", decimals |-> 1, isNative |-> FALSE]
SmartAccount == "0x5afe"

\* BigInt.prototype.toString(): the decimal digits of n, n >= 0
DigitChar(d) ==
    CASE d = 0 -> "0" [] d = 1 -> "1" [] d = 2 -> "2" [] d = 3 -> "3" [] d = 4 -> "4"
      [] d = 5 -> "5" [] d = 6 -> "6" [] d = 7 -> "7" [] d = 8 -> "8" [] d = 9 -> "9"
RECURSIVE BigIntToString(_)
BigIntToString(n) ==
    IF n < 10 THEN <<DigitChar(n)>>
    ELSE Append(BigIntToString(n \div 10), DigitChar(n % 10))

RECURSIVE PowerOfTen(_)
PowerOfTen(d) == IF d = 0 THEN 1 ELSE 10 * PowerOfTen(d - 1)

\* parseUnits(amount.toString(), decimals) of a whole amount: base units
ParseUnits(amount, decimals) == amount * PowerOfTen(decimals)

\* formatUnits(value, decimals): the whole part and the fraction digits
FormatUnits(value, decimals) ==
    <<BigIntToString(value \div PowerOfTen(decimals)), ".",
      IF decimals = 0 THEN <<>> ELSE BigIntToString(value % PowerOfTen(decimals))>>

\* errorPayload of the balance guardrail
ErrorPayload(tokenSymbol, token, balance, amountBigInt, accountAddress, workflowId) ==
    [code |-> "DEPOSIT_REQUIRED",
     tokenSymbol |-> tokenSymbol,
     tokenAddress |-> token.address,
     isNative |-> token.isNative,
     missingAmountRaw |-> BigIntToString(amountBigInt - balance),
     missingAmountFormatted |-> FormatUnits(amountBigInt - balance, token.decimals),
     decimals |-> token.decimals,
     accountAddress |-> accountAddress,
     workflowId |-> workflowId]

\* new Error(`[ACTION_REQUIRED] ${JSON.stringify(errorPayload)}`).message
DepositRequired(tokenSymbol, token, balance, amountBigInt, accountAddress, workflowId) ==
    <<ActionRequiredPrefix,
      Stringify(ErrorPayload(tokenSymbol, token, balance, amountBigInt,
                             accountAddress, workflowId))>>

\* what an action can do: return its output, or throw an error message
Returned == [threw |-> FALSE, message |-> <<>>]
Threw(message) == [threw |-> TRUE, message |-> message]

\* the amounts a transfer may send, and the balances the account may hold
Amounts == {2}
Balances == {1, 2}

\* transfer: the guardrail throws when the balance is short; any action may
\* throw an error of its own
Outcomes(action, workflowId) ==
    {Returned, Threw(<<"Error: ", "node failed">>)}
        \cup (IF action = "transfer"
              THEN {Threw(DepositRequired(Ether.symbol, Ether, b[1], b[2], SmartAccount,
                                          Some(workflowId))) :
                       b \in {x \in Balances \X Amounts : x[1] < x[2]}}
              ELSE {})

\* error.message.startsWith('[ACTION_REQUIRED]')
IsActionRequired(message) == message[1] = ActionRequiredPrefix

\* the node list of a job: the remainder a resume carries, else the actions
\* of the stored configuration
ActionsOf(job) ==
    IF job.resume /\ IsSome(job.remainingActions) THEN Val(job.remainingActions)
    ELSE IF Has(config, job.workflowId) THEN config[job.workflowId].body
    ELSE <<>>

\* the room of the events of a job: its executionId, else its jobId
RoomKey(job) == IF IsSome(job.executionId) THEN job.executionId ELSE Some(job.jobId)

\* a message of the worker on workflow_events
EventMessage(room, status, detail) ==
    Stringify([jobId |-> room, status |-> status, detail |-> detail])

JobOf(jobId) == CHOOSE j \in jobs : j.jobId = jobId

\* a slip: a job whose run failed is taken again
ClaimFailedAgain(job) ==
    /\ job \in jobs
    /\ IF Has(runs, job.jobId) THEN runs[job.jobId].state = "failed" ELSE TRUE
    /\ runs' = Set(runs, job.jobId,
                   Run(job, "running", ActionsOf(job), <<>>, job.context, "active"))
    /\ UNCHANGED <<modal, delivered, saved, bridge, clock, lastRun, published, config, tombstone, pause,
                   jobs, repeatable, pc, req, loc, log>>

\* Queued -> Running: the coordinator claims a job
Claim(job) ==
    /\ Queued(job)
    /\ runs' = Set(runs, job.jobId,
                   Run(job, "running", ActionsOf(job), <<>>, job.context, "active"))
    /\ UNCHANGED <<modal, delivered, saved, bridge, clock, lastRun, published, config, tombstone, pause,
                   jobs, repeatable, pc, req, loc, log>>

\* Running -> Completed: no action is left
Complete(jobId) ==
    /\ Has(runs, jobId)
    /\ runs[jobId].state = "running" /\ runs[jobId].todo = <<>>
    /\ runs' = Set(runs, jobId, [runs[jobId] EXCEPT !.state = "completed",
                                                    !.queueState = "completed"])
    /\ published' = Append(published, EventMessage(RoomKey(JobOf(jobId)), "completed", Null))
    /\ UNCHANGED <<modal, delivered, saved, bridge, clock, lastRun, config, tombstone, pause, jobs,
                   repeatable, pc, req, loc, log>>

\* a slip: the PauseState written without the action that asked for the pause
InvokeDropsPausedAction(jobId) ==
    /\ Has(runs, jobId)
    /\ runs[jobId].state = "running" /\ runs[jobId].todo # <<>>
    /\ LET run == runs[jobId]
           action == Head(run.todo)
           room == RoomKey(JobOf(jobId))
       IN  \E outcome \in Outcomes(action, run.workflowId) :
             IF ~outcome.threw
             THEN /\ runs' = Set(runs, jobId,
                                 [run EXCEPT !.todo = Tail(run.todo),
                                             !.done = Append(run.done, action),
                                             !.context = run.context \cup {action}])
                  /\ UNCHANGED <<pause, published>>
             ELSE IF IsActionRequired(outcome.message)
             THEN /\ pause' = Set(pause, PauseKey(run.workflowId, jobId),
                                  [context |-> Some(run.context),
                                   remainingActions |-> Some(Tail(run.todo)),
                                   spreadsheetId |-> Null])
                  /\ published' = Append(published,
                        EventMessage(room, "action_required", Parse(outcome.message[2])))
                  /\ runs' = Set(runs, jobId, [run EXCEPT !.state = "paused",
                                                          !.queueState = "completed",
                                                          !.error = Some(outcome.message)])
             ELSE /\ published' = Append(published,
                        EventMessage(room, "failed", Some(outcome.message)))
                  /\ runs' = Set(runs, jobId, [run EXCEPT !.state = "failed",
                                                          !.queueState = "failed",
                                                          !.error = Some(outcome.message)])
                  /\ UNCHANGED pause
    /\ UNCHANGED <<modal, delivered, saved, bridge, clock, lastRun, config, tombstone, jobs,
                   repeatable, pc, req, loc, log>>

\* the coordinator invokes the next action of a running run.  Its output
\* joins the context.  An error with the reserved prefix pauses the run:
\* the PauseState holds the actions from this one on and the context, the
\* parsed payload is published, and the job ends as completed.  Any other
\* error ends the run as failed and is published.
Invoke(jobId) ==
    /\ Has(runs, jobId)
    /\ runs[jobId].state = "running" /\ runs[jobId].todo # <<>>
    /\ LET run == runs[jobId]
           action == Head(run.todo)
           room == RoomKey(JobOf(jobId))
       IN  \E outcome \in Outcomes(action, run.workflowId) :
             IF ~outcome.threw
             THEN /\ runs' = Set(runs, jobId,
                                 [run EXCEPT !.todo = Tail(run.todo),
                                             !.done = Append(run.done, action),
                                             !.context = run.context \cup {action}])
                  /\ UNCHANGED <<pause, published>>
             ELSE IF IsActionRequired(outcome.message)
             THEN /\ pause' = Set(pause, PauseKey(run.workflowId, jobId),
                                  [context |-> Some(run.context),
                                   remainingActions |-> Some(run.todo),
                                   spreadsheetId |-> Null])
                  /\ published' = Append(published,
                        EventMessage(room, "action_required", Parse(outcome.message[2])))
                  /\ runs' = Set(runs, jobId, [run EXCEPT !.state = "paused",
                                                          !.queueState = "completed",
                                                          !.error = Some(outcome.message)])
             ELSE /\ published' = Append(published,
                        EventMessage(room, "failed", Some(outcome.message)))
                  /\ runs' = Set(runs, jobId, [run EXCEPT !.state = "failed",
                                                          !.queueState = "failed",
                                                          !.error = Some(outcome.message)])
                  /\ UNCHANGED pause
    /\ UNCHANGED <<modal, delivered, saved, bridge, clock, lastRun, config, tombstone, jobs,
                   repeatable, pc, req, loc, log>>

-----------------------------------------------------------------------------
(* Runs of a manual workflow: the workflow with the actions getPrice and   *)
(* transfer is submitted, the worker takes its jobs, and the caller        *)
(* resumes the runs that paused.  Requests come one at a time, the worker  *)
(* runs beside them, and the clock stays at its first reading.             *)

WorkerActions == <<"getPrice", "transfer">>
WorkerJob == TimeId("job_", 0)
WorkerResumeJob == TimeId("resume_", 0)

WorkerRequests ==
    {TriggerReq(<<"a">>, "manual", NoSchedule, Null, FALSE, WorkerActions)}
    \cup {ResumeReq(Some(WorkerJob), Some(j)) : j \in {WorkerJob, WorkerResumeJob}}

WorkerSteps ==
    \/ \E job \in jobs : Process(job)
    \/ \E job \in jobs : Claim(job)
    \/ \E jobId \in DOMAIN runs : Invoke(jobId)
    \/ \E jobId \in DOMAIN runs : Complete(jobId)

NextWorker ==
    \/ WorkerSteps
    \/ \E p \in SeqProcs :
        \/ \E r \in WorkerRequests : TriggerBegin(p, r)
        \/ TriggerSetConfig(p)
        \/ TriggerJobAdd(p)
        \/ \E r \in WorkerRequests : ResumeBegin(p, r)
        \/ ResumeGet(p)
        \/ ResumeDel(p)
        \/ ResumeAdd(p)

SpecWorker == Init /\ [][NextWorker]_vars

\* the run of jobId enters state st in this step
Enters(jobId, st) ==
    /\ Has(runs', jobId)
    /\ runs'[jobId].state = st
    /\ ~(Has(runs, jobId) /\ runs[jobId].state = st)

-----------------------------------------------------------------------------
(* Resumed runs *)

\* entry e is a /resume-workflow request that was accepted
IsAcceptedResume(e) == e.req.kind = "resume" /\ e.status = 202

(* C22: every accepted /resume-workflow request has put exactly one job    *)
(* into the queue: the job under the jobId it answered with, with          *)
(* resume: true, the context and the remainingActions of the PauseState    *)
(* it read, the workflowId of the request, and that jobId as executionId.  *)
C22_ResumeEnqueuesOneFreshJob ==
    \A i \in LogIdx :
        IsAcceptedResume(log[i]) =>
            /\ log[i].loc.added = 1
            /\ \E job \in jobs :
                  /\ job.jobId = Val(log[i].loc.enqueued)
                  /\ job.executionId = Some(job.jobId)
                  /\ job.resume
                  /\ job.workflowId = Val(log[i].req.id)
                  /\ job.context = Val(Val(log[i].loc.found).context)
                  /\ job.remainingActions = Val(log[i].loc.found).remainingActions


\* the error that ended the run of jobId in this step, if one did
ThrownIn(jobId) ==
    IF Has(runs, jobId) /\ Has(runs', jobId) /\ runs'[jobId].error # runs[jobId].error
    THEN runs'[jobId].error
    ELSE Null

-----------------------------------------------------------------------------
(* Corrupted PauseStates: the store holds, for one paused job, a state     *)
(* that is complete, one whose list or context is empty, or one that lacks *)
(* a field, and the caller resumes the job.                                *)

CorruptJob == TimeId("webhook_exec_", 0)
WellFormedStates ==
    {[context |-> Some(c), remainingActions |-> Some(a), spreadsheetId |-> Null] :
        c \in {{}, {"n1"}}, a \in {<<>>, <<"transfer">>}}
CorruptStates ==
    {[context |-> Null, remainingActions |-> Some(<<"transfer">>), spreadsheetId |-> Null],
     [context |-> Some({"n1"}), remainingActions |-> Null, spreadsheetId |-> Null]}

CorruptRequests ==
    {ResumeReq(Some(PausedWorkflow), Some(CorruptJob))}
    \cup {PauseReq(PausedWorkflow, CorruptJob, st) : st \in WellFormedStates \cup CorruptStates}

NextCorruptSeq ==
    \/ \E r \in CorruptRequests : WorkerPause(r)
    \/ \E p \in SeqProcs :
        \/ \E r \in CorruptRequests : ResumeBegin(p, r)
        \/ ResumeGet(p)
        \/ ResumeDel(p)
        \/ ResumeAdd(p)

SpecCorruptSeq == Init /\ [][NextCorruptSeq]_vars

\* the PauseState lacks remainingActions or context
LacksField(st) == ~IsSome(st.remainingActions) \/ ~IsSome(st.context)

(* C24: a /resume-workflow request that finds a PauseState without         *)
(* remainingActions or without context is answered 500 and hands nothing   *)
(* to the queue; one that finds both fields, be the list or the context    *)
(* empty, is accepted.  The queue holds no more jobs than resumes were     *)
(* accepted.                                                               *)
C24_CorruptedStateRejected ==
    /\ \A i \in LogIdx :
          (log[i].req.kind = "resume" /\ IsSome(log[i].loc.found)) =>
              IF LacksField(Val(log[i].loc.found))
              THEN /\ log[i].status = 500
                   /\ log[i].loc.enqueued = Null
                   /\ log[i].loc.added = 0
              ELSE /\ log[i].status = 202
                   /\ IsSome(log[i].loc.enqueued)
    /\ Cardinality(jobs) <= Cardinality({i \in LogIdx : IsAcceptedResume(log[i])})

\* a resume rejected for a missing field, then one accepted with an empty
\* list and an empty context
C24_Witness ==
    /\ Len(log) = 4
    /\ log[2].req.kind = "resume" /\ log[2].status = 500
    /\ LacksField(Val(log[2].loc.found))
    /\ jobs # {}
    /\ log[4].req.kind = "resume" /\ log[4].status = 202
    /\ Val(log[4].loc.found).remainingActions = Some(<<>>)
    /\ Val(log[4].loc.found).context = Some({})

-----------------------------------------------------------------------------
(* Tombstones of renamed webhooks *)

\* the tombstone of id w is written in this step
TombstoneWritten(w) == Has(tombstone', w) /\ Get(tombstone', w) # Get(tombstone, w)

(* C25: a tombstone of an id is written only by a webhook deploy that      *)
(* names the id as previousWorkflowId, derives another workflowId, and     *)
(* finds a config stored for the id.                                       *)
C25_TombstoneOnlyForLiveConfig ==
    [][\A w \in DOMAIN tombstone' :
          TombstoneWritten(w) =>
            /\ \E p \in Procs :
                  /\ IsWebhook(req[p])
                  /\ req[p].previousWorkflowId = Some(w)
                  /\ loc[p].workflowId # Some(w)
            /\ Has(config, w)]_vars

-----------------------------------------------------------------------------
(* Renames while the store fails: webhook workflow a is deployed and       *)
(* renamed to B, and a command of the rename step may be rejected by the   *)
(* store.  Webhook calls show what the ids answer afterwards.              *)

RenameFaultRequests ==
    {TriggerReq(<<"a">>, "webhook", NoSchedule, Null, FALSE, 1),
     TriggerReq(<<"B">>, "webhook", NoSchedule, Some(NameId("workflow_", <<"a">>)), FALSE, 2)}
    \cup {WebhookReq(w) : w \in WebhookIds}

NextRenameFaultSeq ==
    \E p \in SeqProcs :
        \/ \E r \in RenameFaultRequests : TriggerBegin(p, r)
        \/ TriggerTombstone(p)
        \/ TriggerTombstoneFails(p)
        \/ TriggerDelPrevious(p)
        \/ TriggerDelPreviousFails(p)
        \/ TriggerSetConfig(p)
        \/ TriggerClearTombstone(p)
        \/ \E r \in RenameFaultRequests : WebhookBegin(p, r)
        \/ WebhookGetConfig(p)
        \/ WebhookGetTombstone(p)
        \/ WebhookAdd(p)

SpecRenameFaultSeq == Init /\ [][NextRenameFaultSeq]_vars

\* entry i is a deploy whose rename step failed
RenameFailedIn(i) == log[i].req.kind = "trigger" /\ log[i].loc.caught

(* C26: a /trigger-workflow request whose rename step was rejected by the  *)
(* store is answered like any webhook deploy, 202 with the webhookUrl of   *)
(* the new workflowId, and when it has answered the store holds the        *)
(* request's config under the new workflowId.                              *)
C26_RenameFailureSwallowed ==
    \A i \in LogIdx :
        RenameFailedIn(i) =>
            /\ log[i].status = 202
            /\ log[i].loc.url = Some(WebhookUrl(Val(log[i].loc.workflowId)))
            /\ (i = Len(log) /\ Idle) =>
                  /\ Has(config, Val(log[i].loc.workflowId))
                  /\ config[Val(log[i].loc.workflowId)] = Val(log[i].req.config)

\* the rename of a to B whose tombstone write failed: B is stored, a has
\* no tombstone and keeps its config
C26_Witness ==
    /\ Idle
    /\ Len(log) = 2
    /\ RenameFailedIn(2)
    /\ log[2].status = 202
    /\ ~Has(tombstone, NameId("workflow_", <<"a">>))
    /\ Has(config, NameId("workflow_", <<"a">>))
    /\ Has(config, NameId("workflow_", <<"b">>))
    /\ config[NameId("workflow_", <<"b">>)].body = 2

-----------------------------------------------------------------------------
(* Hot-reload of a webhook id *)

(* C27: when a PUT /hot-reload for a webhook workflowId has been answered  *)
(* 200 and nothing has happened since, no tombstone is stored for that id. *)
C27_HotReloadClearsTombstone ==
    \A w \in WebhookIds :
        (/\ Idle
         /\ Len(log) > 0
         /\ log[Len(log)].req.kind = "hotreload"
         /\ log[Len(log)].req.id = Some(w)
         /\ log[Len(log)].status = 200) => ~Has(tombstone, w)

-----------------------------------------------------------------------------
(* The worker and the configurations *)

\* a step of the worker: one that changes its store key, its publications or its runs
WorkerStep == worker' # worker

(* C28: no step of the worker changes a stored configuration; the          *)
(* configurations change only in steps of the /trigger-workflow and        *)
(* /hot-reload handlers.                                                   *)
C28_WorkerLeavesConfig ==
    [][/\ WorkerStep => config' = config
       /\ config' # config =>
            \E p \in Procs : req[p].kind \in {"trigger", "hotreload"} /\ pc'[p] # pc[p]]_vars

\* the run of the submitted job has paused and was resumed, the processor
\* has taken the resumed job, and the configuration is the submitted one
C28_Witness ==
    /\ Has(runs, WorkerJob) /\ runs[WorkerJob].state = "paused"
    /\ Has(runs, WorkerResumeJob) /\ runs[WorkerResumeJob].state = "completed"
    /\ Has(lastRun, WorkerJob)
    /\ Has(config, WorkerJob)
    /\ config[WorkerJob].body = WorkerActions

-----------------------------------------------------------------------------
(* Rejected webhook calls *)

\* everything the handlers keep outside themselves: the store and the queue
store == <<config, tombstone, pause, saved, lastRun, jobs, repeatable>>

\* handler p serves a webhook call in this step, which is not its add to the queue
WebhookLookupStep(p) ==
    /\ pc'[p] # pc[p] \/ log' # log
    /\ pc[p] # "w_add"
    /\ req[p].kind = "webhook"
          \/ (pc[p] = "idle" /\ log' # log /\ log'[Len(log')].req.kind = "webhook")
          \/ (pc[p] = "idle" /\ req'[p].kind = "webhook")

\* entry e is a webhook call answered malformed, not-found or gone
IsRejectedCall(e) == e.req.kind = "webhook" /\ e.status \in {400, 404, 410}

(* C29: the steps of a webhook call before its add to the queue change no  *)
(* key of the store and no entry of the queue, and a call answered 400,    *)
(* 404 or 410 has ended without reaching that add: it handed no job to the *)
(* queue.                                                                  *)
C29_RejectedCallChangesNothing ==
    /\ [][\A p \in SeqProcs : WebhookLookupStep(p) => store' = store]_vars
    /\ [](\A i \in LogIdx :
            IsRejectedCall(log[i]) => log[i].loc.enqueued = Null /\ log[i].loc.added = 0)

\* calls answered 400, 404 and 410, with a config and a tombstone in the store
C29_Witness ==
    /\ Idle
    /\ \E i \in LogIdx : IsRejectedCall(log[i]) /\ log[i].status = 410
    /\ \E i \in LogIdx : IsRejectedCall(log[i]) /\ log[i].status = 400
    /\ config # <<>>
    /\ tombstone # <<>>

-----------------------------------------------------------------------------
(* Paused runs among other requests: two jobs of webhook workflow a have   *)
(* paused, one with a complete PauseState and one with a state that lacks  *)
(* its context.  The caller resumes them, with the right pair, with        *)
(* another pair and without a jobId, while the workflow is renamed,        *)
(* hot-reloaded and called, its editor state saved and deleted, and a      *)
(* schedule deleted.                                                       *)

KeptJob == TimeId("webhook_exec_", 0)
BrokenJob == TimeId("webhook_exec_", 1)
KeptState ==
    [context |-> Some({"n1"}), remainingActions |-> Some(<<"transfer">>),
     spreadsheetId |-> Null]
BrokenState ==
    [context |-> Null, remainingActions |-> Some(<<"transfer">>), spreadsheetId |-> Null]

KeepRequests ==
    {PauseReq(PausedWorkflow, KeptJob, KeptState),
     PauseReq(PausedWorkflow, BrokenJob, BrokenState),
     ResumeReq(Some(PausedWorkflow), Some(KeptJob)),
     ResumeReq(Some(PausedWorkflow), Some(BrokenJob)),
     ResumeReq(Some(NameId("workflow_", <<"b">>)), Some(KeptJob)),
     ResumeReq(Some(PausedWorkflow), Null),
     TriggerReq(<<"B">>, "webhook", NoSchedule, Some(PausedWorkflow), FALSE, 1),
     HotReloadReq(Some(PausedWorkflow), Some(WebhookConfig(<<"a">>))),
     WebhookReq(PausedWorkflow),
     SaveReq(<<"a">>, Some(<<"n1">>), Some(<<>>), Null, Some(PausedWorkflow)),
     DeleteStateReq(<<"a">>),
     UnscheduleReq(<<PausedWorkflow, Null, Null>>)}

NextKeepSeq ==
    \/ \E r \in KeepRequests : WorkerPause(r)
    \/ \E p \in SeqProcs :
        \/ \E r \in KeepRequests : ResumeBegin(p, r)
        \/ ResumeGet(p)
        \/ ResumeDel(p)
        \/ ResumeAdd(p)
        \/ \E r \in KeepRequests : TriggerBegin(p, r)
        \/ TriggerTombstone(p)
        \/ TriggerDelPrevious(p)
        \/ TriggerSetConfig(p)
        \/ TriggerClearTombstone(p)
        \/ \E r \in KeepRequests : HotReloadBegin(p, r)
        \/ HotReloadSet(p)
        \/ \E r \in KeepRequests : WebhookBegin(p, r)
        \/ WebhookGetConfig(p)
        \/ WebhookGetTombstone(p)
        \/ WebhookAdd(p)
        \/ \E r \in KeepRequests : SaveBegin(p, r)
        \/ SaveGet(p)
        \/ SaveSet(p)
        \/ \E r \in KeepRequests : DeleteStateBegin(p, r)
        \/ DeleteStateDel(p)
        \/ \E r \in KeepRequests : UnscheduleBegin(p, r)
        \/ UnscheduleRemove(p)

SpecKeepSeq == Init /\ [][NextKeepSeq]_vars

\* handler p consumes the PauseState under key k in this step: it is a
\* /resume-workflow request for that pair, at its delete, on its way to the add
Consumes(p, k) ==
    /\ req[p].kind = "resume"
    /\ pc[p] = "r_del" /\ pc'[p] = "r_add"
    /\ IsSome(req[p].id) /\ IsSome(req[p].jobId)
    /\ k = PauseKey(Val(req[p].id), Val(req[p].jobId))

(* C30: a stored PauseState is removed or changed only in the step in      *)
(* which a /resume-workflow request for its own (workflowId, jobId)        *)
(* deletes it; every other step of every request leaves it as it is.       *)
C30_PauseStateKeptUntilResumed ==
    [][\A k \in DOMAIN pause :
          (~Has(pause', k) \/ Get(pause', k) # Get(pause, k)) =>
              \E p \in Procs : Consumes(p, k)]_vars

\* both jobs paused, the resume of the broken state was rejected and the
\* state is still stored, the resume of the complete state consumed it
C30_Witness ==
    /\ Idle
    /\ Len(log) = 4
    /\ IsResumeOf(log[3], PausedWorkflow, BrokenJob) /\ log[3].status = 500
    /\ IsResumeOf(log[4], PausedWorkflow, KeptJob) /\ log[4].status = 202
    /\ Has(pause, PauseKey(PausedWorkflow, BrokenJob))
    /\ pause[PauseKey(PausedWorkflow, BrokenJob)] = BrokenState
    /\ ~Has(pause, PauseKey(PausedWorkflow, KeptJob))

-----------------------------------------------------------------------------
(* Event order: the worker publishes the progress of a job as events that  *)
(* differ in their step, in any order and more than once, beside an event  *)
(* of another job, while two sockets connect, watch the job and one        *)
(* disconnects.                                                            *)

OrderedJob == TimeId("job_", 0)
OtherJob == NameId("workflow_", <<"a">>)
StepEvent(jobId, step) == [jobId |-> Some(jobId), type |-> "node_completed", step |-> step]

OrderRequests ==
    {SocketReq("connect", sk, Null) : sk \in Sockets}
    \cup {SocketReq("subscribe", sk, Some(OrderedJob)) : sk \in Sockets}
    \cup {SocketReq("disconnect", 1, Null)}
    \cup {MessageReq("workflow_events", Stringify(StepEvent(OrderedJob, k))) : k \in {1, 2}}
    \cup {MessageReq("workflow_events", Stringify(StepEvent(OtherJob, 1)))}

NextOrder ==
    \E r \in OrderRequests :
        \/ Connect(r)
        \/ SubscribeJob(r)
        \/ Disconnect(r)
        \/ Message(r)
SpecOrder == Init /\ [][NextOrder]_vars

\* the event of the n-th logged step, if it is a well-formed one on workflow_events
EventOf(n) == IF IsEventMessage(n) THEN Parse(Val(log[n].req.config)) ELSE Null

\* the events of job room published up to step n while socket sk was
\* watching the job, in the order of their publication
RECURSIVE PublishedFor(_, _, _)
PublishedFor(sk, room, n) ==
    IF n = 0 THEN <<>>
    ELSE IF /\ IsSome(EventOf(n))
            /\ Val(EventOf(n)).jobId = Some(room)
            /\ sk \in Watchers(n, room)
    THEN Append(PublishedFor(sk, room, n - 1), Val(EventOf(n)))
    ELSE PublishedFor(sk, room, n - 1)

\* the events of job room that socket sk was sent, in the order it got them
ReceivedOf(sk, room) ==
    LET OfRoom(e) == e.jobId = Some(room)
    IN  SelectSeq(IF sk \in DOMAIN delivered THEN delivered[sk] ELSE <<>>, OfRoom)

(* C31: the events of a job that a socket was sent are the events of that  *)
(* job published while the socket was watching it, each once and in the    *)
(* order of their publication.                                             *)
C31_EventsInPublicationOrder ==
    \A sk \in Sockets : \A room \in {OrderedJob, OtherJob} :
        ReceivedOf(sk, room) = PublishedFor(sk, room, Len(log))

\* a socket watches the job, step 2 is published before step 1, and the
\* socket has been sent them in that order
C31_Witness ==
    /\ Len(log) = 4
    /\ EventOf(3) = Some(StepEvent(OrderedJob, 2))
    /\ EventOf(4) = Some(StepEvent(OrderedJob, 1))
    /\ 1 \in Watchers(3, OrderedJob)
    /\ 1 \in DOMAIN delivered
    /\ delivered[1] = <<StepEvent(OrderedJob, 2), StepEvent(OrderedJob, 1)>>

-----------------------------------------------------------------------------
(* Delete before enqueue *)

\* resume requests that may overlap, at one reading of the clock
NextResumeRace ==
    \/ \E r \in ResumeRequests : WorkerPause(r)
    \/ \E p \in Procs : ResumeSteps(p)
SpecResumeRace == Init /\ [][NextResumeRace]_vars

\* the worker persisted a PauseState of (w, j) after the first n logged steps
PausedAgainSince(n, w, j) == \E i \in (n + 1)..Len(log) : IsPauseOf(log[i], w, j)

(* C32: once a /resume-workflow request for (workflowId, jobId) has put    *)
(* its job into the queue, the PauseState it read is gone from the store:  *)
(* a PauseState found under that pair was persisted by the worker after    *)
(* the request had read its own.                                           *)
C32_DeletedBeforeEnqueued ==
    \A i \in LogIdx : \A j \in PausedJobs :
        (IsAcceptedResume(log[i]) /\ IsResumeOf(log[i], PausedWorkflow, j)
         /\ Has(pause, PauseKey(PausedWorkflow, j)))
            => PausedAgainSince(log[i].loc.since, PausedWorkflow, j)

\* a resume was accepted, its job is in the queue, its PauseState is gone
\* and the PauseState of the other job is still stored
C32_Witness ==
    \E i \in LogIdx : \E j, k \in PausedJobs :
        /\ IsAcceptedResume(log[i]) /\ IsResumeOf(log[i], PausedWorkflow, j)
        /\ \E job \in jobs : job.resume /\ Some(job.jobId) = log[i].loc.enqueued
        /\ ~Has(pause, PauseKey(PausedWorkflow, j))
        /\ ~PausedAgainSince(log[i].loc.since, PausedWorkflow, j)
        /\ Has(pause, PauseKey(PausedWorkflow, k))


-----------------------------------------------------------------------------
(* The transfer and swapUniswap actions, called by POST /test-node with the *)
(* mock context and by the engine with the context of a run: token          *)
(* resolution, the pre-flight balance guardrail and the UserOperation.      *)

\* body of POST /test-node: { type, config }
TestNodeReq(type, cfg) == [kind |-> "testnode", type |-> type, config |-> cfg]

\* a call action(inputs, context) with context.SYSTEM_WORKFLOW_ID = workflowId
ExecuteReq(type, cfg, workflowId) ==
    [kind |-> "execute", type |-> type, config |-> cfg, workflowId |-> workflowId]

\* inputs of an action: destination, whole amount and selected token
NodeConfig(toAddress, amount, token) ==
    [toAddress |-> toAddress, amount |-> amount, token |-> token]

NodeRegistry == {"transfer", "swapUniswap"}

\* toAddress.startsWith("0x")
StartsWith0x(a) == Len(a) >= 2 /\ a[1] = "0" /\ a[2] = "x"

\* the action up to its balance read: transfer validates the destination
EnterAction(p, r, workflowId) ==
    IF r.type = "transfer" /\ ~StartsWith0x(r.config.toAddress)
    THEN /\ CanStart(p)
         /\ Respond(p, r, [NoLoc EXCEPT !.workflowId = workflowId,
                                        !.error = Some(<<"Invalid Destination Address">>)], 500)
    ELSE Begin(p, r, [NoLoc EXCEPT !.workflowId = workflowId], "n_balance")

\* POST /test-node: nodeExecutor(config, { TEST_MODE: true })
TestNodeBegin(p, r) ==
    /\ r.kind = "testnode"
    /\ UNCHANGED <<modal, delivered, worker, saved, bridge, clock, config, tombstone, pause, jobs, repeatable>>
    /\ IF r.type \notin NodeRegistry
       THEN /\ CanStart(p)
            /\ Respond(p, r, NoLoc, 400)
       ELSE EnterAction(p, r, Null)

\* a call of the action with a context that carries SYSTEM_WORKFLOW_ID
ExecuteBegin(p, r) ==
    /\ r.kind = "execute"
    /\ r.type \in NodeRegistry
    /\ UNCHANGED <<modal, delivered, worker, saved, bridge, clock, config, tombstone, pause, jobs, repeatable>>
    /\ EnterAction(p, r, Some(r.workflowId))

\* the required amount in base units
AmountBigInt(r) == ParseUnits(r.config.amount, r.config.token.decimals)

\* a slip: an exactly sufficient balance is refused as well
UnderfundedOrEqual(balance, amountBigInt) == balance <= amountBigInt

\* balance < amountBigInt: the balance is strictly below the required amount
Underfunded(balance, amountBigInt) == balance < amountBigInt

\* the balance read and the guardrail: throw [ACTION_REQUIRED] or go on
ActionBalance(p) ==
    /\ pc[p] = "n_balance"
    /\ UNCHANGED <<modal, delivered, worker, saved, bridge, clock, config, tombstone, pause, jobs, repeatable>>
    /\ \E balance \in Balances :
         LET l == [loc[p] EXCEPT !.found = Some(balance)] IN
         IF Underfunded(balance, AmountBigInt(req[p]))
         THEN Respond(p, req[p],
                      [l EXCEPT !.error =
                          Some(DepositRequired(req[p].config.token.symbol, req[p].config.token,
                                               balance, AmountBigInt(req[p]), SmartAccount,
                                               loc[p].workflowId))],
                      500)
         ELSE Goto(p, l, "n_send")

\* nexusClient.sendUserOperation({ calls }) and the receipt
ActionSend(p) ==
    /\ pc[p] = "n_send"
    /\ UNCHANGED <<modal, delivered, worker, saved, bridge, clock, config, tombstone, pause, jobs, repeatable>>
    /\ Respond(p, req[p], [loc[p] EXCEPT !.userOps = @ + 1], 200)

NodeRequests ==
    {TestNodeReq("transfer", NodeConfig(<<"0", "x", "1">>, a, Ether)) : a \in {1, 2}}
    \cup {TestNodeReq("transfer", NodeConfig(<<"b", "o", "b">>, 1, Ether)),
          TestNodeReq("swap", NodeConfig(<<>>, 1, Ether)),
          TestNodeReq("swapUniswap", NodeConfig(<<>>, 2, Ether)),
          ExecuteReq("transfer", NodeConfig(<<"0", "x", "1">>, 1, Usdc), <<"job_", <<>>, 0>>),
          ExecuteReq("swapUniswap", NodeConfig(<<>>, 1, Ether), <<"job_", <<>>, 0>>)}

NextNodeSeq ==
    \E p \in SeqProcs :
        \/ \E r \in NodeRequests : TestNodeBegin(p, r)
        \/ \E r \in NodeRequests : ExecuteBegin(p, r)
        \/ ActionBalance(p)
        \/ ActionSend(p)

SpecNodeSeq == Init /\ [][NextNodeSeq]_vars

\* a logged call of one of the two actions
IsActionCall(n) ==
    /\ log[n].req.kind \in {"testnode", "execute"}
    /\ log[n].req.type \in NodeRegistry

\* the error of the n-th logged call is an [ACTION_REQUIRED] message
RaisedActionRequired(n) ==
    /\ IsSome(log[n].loc.error)
    /\ Val(log[n].loc.error)[1] = ActionRequiredPrefix

\* C33: an action call raises [ACTION_REQUIRED] exactly when the balance it
\* read is strictly below the required amount; then it has sent no
\* UserOperation, and the payload parses to code DEPOSIT_REQUIRED, a
\* missingAmountRaw whose digits read required minus balance (positive), the
\* token's decimals, the account address and the context's workflowId (null
\* under /test-node); a call that read a sufficient balance raises none.
C33_ActionRequiredIffUnderfunded ==
    \A n \in 1..Len(log) :
        IsActionCall(n) =>
            LET e == log[n]
                required == AmountBigInt(e.req)
                low == IsSome(e.loc.found) /\ Val(e.loc.found) < required
            IN /\ RaisedActionRequired(n) <=> low
               /\ low =>
                    LET payload == Val(Parse(Val(e.loc.error)[2])) IN
                    /\ e.loc.userOps = 0
                    /\ e.status = 500
                    /\ payload.code = "DEPOSIT_REQUIRED"
                    /\ ParseInt(payload.missingAmountRaw) = required - Val(e.loc.found)
                    /\ ParseInt(payload.missingAmountRaw) > 0
                    /\ payload.decimals = e.req.config.token.decimals
                    /\ payload.accountAddress = SmartAccount
                    /\ payload.workflowId =
                         (IF e.req.kind = "execute" THEN Some(e.req.workflowId) ELSE Null)
               /\ (IsSome(e.loc.found) /\ ~low) => ~RaisedActionRequired(n)

C33_Witness ==
    \E m, n, k \in 1..Len(log) :
        /\ IsActionCall(m) /\ IsActionCall(n) /\ IsActionCall(k)
        /\ log[m].req.type = "transfer" /\ RaisedActionRequired(m)
        /\ log[m].req.kind = "execute"
        /\ log[n].req.type = "swapUniswap" /\ RaisedActionRequired(n)
        /\ log[k].loc.userOps = 1
        /\ Val(log[k].loc.found) = AmountBigInt(log[k].req)


-----------------------------------------------------------------------------
(* Rejected timer deploys and the stored configuration *)

\* C34: while a /trigger-workflow request that is rejected with "Invalid
\* timer configuration" is handled, no step of its handler changes the
\* stored workflow configurations.
C34_InvalidTimerLeavesConfig ==
    [][\A p \in SeqProcs :
          (pc[p] # "idle" /\ InvalidTimer(req[p])) => config' = config]_vars


-----------------------------------------------------------------------------
(* Resume requests and a queue that refuses the enqueue *)

\* workflowQueue.add rejects: the catch of the handler answers 500
ResumeAddFails(p) ==
    /\ pc[p] = "r_add"
    /\ Respond(p, req[p], [loc[p] EXCEPT !.caught = TRUE], 500)
    /\ UNCHANGED <<modal, delivered, worker, saved, bridge, clock, config, tombstone, pause, jobs, repeatable>>

NextResumeFaultSeq ==
    \/ \E r \in ResumeRequests : WorkerPause(r)
    \/ \E p \in SeqProcs :
        \/ ResumeSteps(p)
        \/ ResumeAddFails(p)
SpecResumeFaultSeq == Init /\ [][NextResumeFaultSeq]_vars

\* the last logged request is a /resume-workflow that read a PauseState
ResumeJustFinished ==
    /\ Idle
    /\ Len(log) > 0
    /\ log[Len(log)].req.kind = "resume"
    /\ IsSome(log[Len(log)].loc.found)

\* C35: when a /resume-workflow request that read the PauseState of
\* (workflowId, jobId) has finished, with any answer, that PauseState is
\* still stored or the request has put a resume job built from it into the
\* queue.
C35_ResumeNeverLosesRun ==
    ResumeJustFinished =>
        LET e == log[Len(log)]
            pauseState == Val(e.loc.found)
        IN  \/ Get(pause, PauseKey(Val(e.req.id), Val(e.req.jobId))) = Some(pauseState)
            \/ /\ e.loc.added = 1
               /\ \E job \in jobs :
                     /\ job.jobId = Val(e.loc.enqueued)
                     /\ job.resume
                     /\ job.workflowId = Val(e.req.id)
                     /\ job.context = Val(pauseState.context)
                     /\ job.remainingActions = pauseState.remainingActions


-----------------------------------------------------------------------------
(* Webhook calls that overlap with deploys and renames of the workflow *)

CallRaceRequests ==
    {TriggerReq(<<"a">>, "webhook", NoSchedule, Null, FALSE, 1),
     TriggerReq(<<"B">>, "webhook", NoSchedule, Some(NameId("workflow_", <<"a">>)), FALSE, 1),
     WebhookReq(NameId("workflow_", <<"a">>))}

NextCallRace ==
    \E p \in Procs :
        \/ \E r \in CallRaceRequests : TriggerBegin(p, r)
        \/ TriggerTombstone(p)
        \/ TriggerDelPrevious(p)
        \/ TriggerSetConfig(p)
        \/ TriggerClearTombstone(p)
        \/ \E r \in CallRaceRequests : WebhookBegin(p, r)
        \/ WebhookGetConfig(p)
        \/ WebhookGetTombstone(p)
        \/ WebhookAdd(p)
SpecCallRace == Init /\ [][NextCallRace]_vars

\* the step in which the webhook receiver of p puts its job into the queue
WebhookEnqueues(p) ==
    /\ req[p].kind = "webhook"
    /\ pc[p] = "w_add" /\ pc'[p] = "idle"
    /\ jobs' # jobs

\* C36: in the step in which the webhook receiver enqueues an
\* ExecutionRequest, the workflow_config of the workflowId it names is
\* stored, also when deploys that rename the workflow overlap with the call.
C36_EnqueuedIdHasConfig ==
    [][\A p \in Procs :
          WebhookEnqueues(p) => Has(config, Val(loc[p].workflowId))]_vars


-----------------------------------------------------------------------------
(* Webhook deploys whose previousWorkflowId names a workflow of another kind *)

NamespaceRequests ==
    {TriggerReq(TimerName, "timer", EveryFive, Null, FALSE, 1),
     TriggerReq(<<"a">>, "manual", NoSchedule, Null, FALSE, 1)}
    \cup {TriggerReq(<<"a">>, "webhook", NoSchedule, prev, FALSE, 1) :
            prev \in {Null, Some(CronId), Some(TimeId("job_", 0)),
                      Some(NameId("workflow_", <<"b">>))}}

NextNamespaceSeq ==
    \E p \in SeqProcs :
        \/ \E r \in NamespaceRequests : TriggerBegin(p, r)
        \/ TriggerTombstone(p)
        \/ TriggerDelPrevious(p)
        \/ TriggerSetConfig(p)
        \/ TriggerClearTombstone(p)
        \/ TriggerList(p)
        \/ TriggerRemove(p)
        \/ TriggerRepeatAdd(p)
        \/ TriggerJobAdd(p)
SpecNamespaceSeq == Init /\ [][NextNamespaceSeq]_vars

\* C37: tombstones are stored only for ids of the webhook namespace, and no
\* deploy has removed the config of a timer or ad-hoc workflow: every
\* recurring entry and every queued execution has a stored config for its
\* workflowId.
C37_RenameStaysInWebhookNamespace ==
    /\ \A w \in DOMAIN tombstone : StartsWithWorkflow(w)
    /\ \A e \in repeatable : Has(config, e.id)
    /\ \A j \in jobs : Has(config, j.workflowId)


-----------------------------------------------------------------------------
(* Test runs of webhook workflows: "run now" requests that deploy, rename   *)
(* and redeploy two webhook workflows, and calls of their webhooks, one     *)
(* request at a time.                                                       *)

TestDeployRequests ==
    {TriggerReq(n, "webhook", NoSchedule, prev, TRUE, body) :
        n \in WebhookNames, prev \in {Null, Some(NameId("workflow_", <<"a">>))},
        body \in {1, 2}}
    \cup {WebhookReq(NameId("workflow_", <<"a">>))}

NextTestDeploySeq ==
    \E p \in SeqProcs :
        \/ \E r \in TestDeployRequests : TriggerBegin(p, r)
        \/ TriggerTombstone(p)
        \/ TriggerDelPrevious(p)
        \/ TriggerSetConfig(p)
        \/ TriggerClearTombstone(p)
        \/ TriggerTestAdd(p)
        \/ \E r \in TestDeployRequests : WebhookBegin(p, r)
        \/ WebhookGetConfig(p)
        \/ WebhookGetTombstone(p)
        \/ WebhookAdd(p)
SpecTestDeploySeq == Init /\ [][NextTestDeploySeq]_vars

\* the store holds what a deploy of request r under workflowId leaves there
DeployEffectsApplied(r, workflowId) ==
    /\ Get(config, workflowId) = r.config
    /\ IsWebhook(r) =>
          /\ ~Has(tombstone, workflowId)
          /\ IsRename(r, workflowId) =>
                /\ Get(tombstone, Val(r.previousWorkflowId))
                      = Some([status |-> "renamed", newWorkflowId |-> workflowId])
                /\ ~Has(config, Val(r.previousWorkflowId))

\* entry e is a webhook call of id w
IsWebhookCallOf(e, w) == e.req.kind = "webhook" /\ e.req.id = Some(w)

\* C38: when the handler of a test run is about to enqueue, the store
\* already holds the effects of a deploy of its request: the submitted
\* config under workflowId and, for a webhook trigger, no tombstone of
\* workflowId and the tombstone and no config of a renamed previous id; a
\* webhook call that follows the test run of a webhook workflow is accepted.
C38_TestRunDeploysFirst ==
    /\ \A p \in SeqProcs :
          (req[p].kind = "trigger" /\ req[p].isTestRun /\ pc[p] = "t_testadd") =>
              DeployEffectsApplied(req[p], Val(loc[p].workflowId))
    /\ \A n \in 2..Len(log) :
          (/\ IsTestRun(log[n - 1]) /\ IsWebhook(log[n - 1].req)
           /\ IsWebhookCallOf(log[n], Val(log[n - 1].loc.workflowId))) =>
              /\ log[n - 1].status = 202
              /\ log[n - 1].loc.enqueued # Null
              /\ log[n].status = 200

\* the webhook of a never-deployed workflow is gone after a rename, a test
\* run of the workflow then makes it callable
C38_Witness ==
    /\ Idle
    /\ Len(log) = 4
    /\ IsTestRun(log[1]) /\ IsRenameFromTo(log[1], NameId("workflow_", <<"a">>),
                                           NameId("workflow_", <<"b">>))
    /\ IsWebhookCallOf(log[2], NameId("workflow_", <<"a">>)) /\ log[2].status = 410
    /\ IsTestRun(log[3]) /\ log[3].loc.workflowId = Some(NameId("workflow_", <<"a">>))
    /\ IsWebhookCallOf(log[4], NameId("workflow_", <<"a">>)) /\ log[4].status = 200


-----------------------------------------------------------------------------
(* Names that collide: saves, loads and webhook deploys under three names, *)
(* two of which differ only in case and in a non-alphanumeric character,   *)
(* one request at a time.                                                  *)

Dashed == <<"a", "-", "b">>
Underscored == <<"A", "_", "b">>
Joined == <<"a", "b">>
CollideNames == {Dashed, Underscored, Joined}

CollideRequests ==
    {SaveReq(Dashed, Some(<<"n1">>), Some(<<>>), Null, Null),
     SaveReq(Underscored, Some(<<"n1", "n2">>), Some(<<"e1">>), Null, Null),
     SaveReq(Joined, Some(<<"n3">>), Some(<<>>), Null, Null)}
    \cup {LoadReq(n) : n \in {Dashed, Joined}}
    \cup {TriggerReq(n, "webhook", NoSchedule, Null, FALSE, 1) : n \in {Dashed, Underscored}}

NextCollideSeq ==
    \E p \in SeqProcs :
        \/ \E r \in CollideRequests : SaveBegin(p, r)
        \/ SaveGet(p)
        \/ SaveSet(p)
        \/ \E r \in CollideRequests : LoadBegin(p, r)
        \/ LoadGet(p)
        \/ \E r \in CollideRequests : TriggerBegin(p, r)
        \/ TriggerSetConfig(p)
        \/ TriggerClearTombstone(p)
SpecCollideSeq == Init /\ [][NextCollideSeq]_vars

IsAlphanumeric(c) == c \in LowerChars \cup UpperChars \cup DigitChars

\* names a and b are equal once every non-alphanumeric character is an
\* underscore and every letter is lower-cased
SameAfterNormalising(a, b) ==
    /\ Len(a) = Len(b)
    /\ \A i \in 1..Len(a) :
          IF IsAlphanumeric(a[i]) /\ IsAlphanumeric(b[i])
          THEN ToLowerChar(a[i]) = ToLowerChar(b[i])
          ELSE ~IsAlphanumeric(a[i]) /\ ~IsAlphanumeric(b[i])

\* the answered saves before entry n under a name that collides with name m
SavesBefore(n, m) ==
    {k \in 1..(n - 1) :
        /\ log[k].req.kind = "save" /\ log[k].status = 200
        /\ SameAfterNormalising(Val(log[k].req.config).name, m)}

\* the accepted webhook deploys under a name that collides with name m
DeploysOf(m) ==
    {k \in LogIdx :
        /\ log[k].req.kind = "trigger" /\ log[k].status = 202
        /\ SameAfterNormalising(Val(log[k].req.config).workflowName, m)}

Latest(S) == CHOOSE k \in S : \A j \in S : j <= k

\* C39: two names derive one webhook or timer workflowId and one
\* workflow_state key exactly when they are equal after normalising; every
\* save stores the version after that of the latest save under a colliding
\* name (1 if there is none), a load under any colliding name returns the
\* document of the latest such save, and the config stored under the
\* workflowId of a name is that of the latest deploy under a colliding name.
C39_CollidingNamesShareDocuments ==
    /\ \A a, b \in CollideNames : \A t \in {"webhook", "timer"} : \A now \in 0..MaxClock :
          (DeriveId(t, a, now) = DeriveId(t, b, now) /\ StateKey(a) = StateKey(b))
              <=> SameAfterNormalising(a, b)
    /\ \A n \in LogIdx :
          /\ (log[n].req.kind = "save" /\ log[n].status = 200) =>
                LET before == SavesBefore(n, Val(log[n].req.config).name) IN
                /\ Val(log[n].loc.stored).name = Val(log[n].req.config).name
                /\ Val(log[n].loc.stored).version =
                      IF before = {} THEN 1
                      ELSE Val(log[Latest(before)].loc.stored).version + 1
          /\ log[n].req.kind = "load" =>
                LET before == SavesBefore(n, Val(log[n].req.id)) IN
                IF before = {} THEN log[n].status = 404
                ELSE /\ log[n].status = 200
                     /\ log[n].loc.stored = log[Latest(before)].loc.stored
    /\ Idle =>
          \A m \in CollideNames :
              /\ LET all == SavesBefore(Len(log) + 1, m) IN
                 all # {} =>
                    Get(saved, StateKey(m)) = Some(Stringify(Val(log[Latest(all)].loc.stored)))
              /\ DeploysOf(m) # {} =>
                    Get(config, DeriveId("webhook", m, 0)) = log[Latest(DeploysOf(m))].req.config

\* saved under one spelling, saved under the other, loaded under the first:
\* the second document with version 2; the third name has its own document
C39_Witness ==
    /\ Idle
    /\ Len(log) = 4
    /\ log[1].req = SaveReq(Dashed, Some(<<"n1">>), Some(<<>>), Null, Null)
    /\ log[2].req.kind = "save" /\ Val(log[2].req.config).name = Underscored
    /\ Val(log[2].loc.stored).version = 2
    /\ log[3].req = LoadReq(Dashed)
    /\ Val(log[3].loc.stored).name = Underscored
    /\ log[4].req.kind = "save" /\ Val(log[4].req.config).name = Joined
    /\ Val(log[4].loc.stored).version = 1


-----------------------------------------------------------------------------
(* The deposit modal: the parent shows it with the data of a paused run,   *)
(* the user submits deposits that the wallet may reject, the chain         *)
(* confirms or reverts them, and the modal resumes the run.                *)

\* deposits the user attempts
MaxDeposits == 3

\* depositData as the parent passes it
DepositData(workflowId, jobId, isNative, tokenAddress) ==
    [workflowId |-> workflowId, jobId |-> jobId, isNative |-> isNative,
     tokenAddress |-> tokenAddress]

DepositDatas ==
    {DepositData(Some(PausedWorkflow), Some(KeptJob), TRUE, Null),
     DepositData(Some(PausedWorkflow), Null, FALSE, Some(Usdc.address)),
     DepositData(Null, Some(KeptJob), FALSE, Null)}

\* the characters the user typed into the amount field
AmountInputs == {<<>>, <<"1">>, <<"x">>}

\* isSuccess of useWaitForTransactionReceipt({ hash: pendingHash })
IsConfirmed(m) ==
    IF IsSome(m.pendingHash) THEN m.receipts[Val(m.pendingHash)] = "success" ELSE FALSE

\* isLoading of useWaitForTransactionReceipt({ hash: pendingHash })
IsConfirming(m) ==
    IF IsSome(m.pendingHash) THEN m.receipts[Val(m.pendingHash)] = "pending" ELSE FALSE

\* the call onResume(depositData.workflowId, depositData.jobId)
ResumeCall(m) ==
    [workflowId |-> Val(m.depositData).workflowId, jobId |-> Val(m.depositData).jobId,
     hash |-> Val(m.pendingHash)]

\* a slip: the effect does not wait for the confirmation
AutoResumeUnconfirmed(m) ==
    IF ~IsSome(m.pendingHash) THEN m
    ELSE LET resumes ==
                 /\ ~m.hasResumed /\ m.onResume /\ IsSome(m.depositData)
                 /\ IsSome(Val(m.depositData).workflowId)
                 /\ IsSome(Val(m.depositData).jobId)
         IN  [m EXCEPT !.closes = @ + 1,
                       !.hasResumed = IF resumes THEN TRUE ELSE @,
                       !.resumes = IF resumes THEN Append(@, ResumeCall(m)) ELSE @,
                       !.pendingHash = Null]

\* the auto-resume effect, run after a render committed state m
AutoResume(m) ==
    IF ~IsSome(m.pendingHash) \/ ~IsConfirmed(m) THEN m
    ELSE LET resumes ==
                 /\ ~m.hasResumed /\ m.onResume /\ IsSome(m.depositData)
                 /\ IsSome(Val(m.depositData).workflowId)
                 /\ IsSome(Val(m.depositData).jobId)
         IN  [m EXCEPT !.closes = @ + 1,
                       !.hasResumed = IF resumes THEN TRUE ELSE @,
                       !.resumes = IF resumes THEN Append(@, ResumeCall(m)) ELSE @,
                       !.pendingHash = Null]

\* a render commits state m and its effects run
Commit(m) ==
    /\ modal' = AutoResume(m)
    /\ UNCHANGED <<delivered, worker, saved, bridge, clock, config, tombstone, pause, jobs,
                   repeatable, pc, req, loc, log>>

\* the parent renders the modal with new props
ShowModal(isOpen, d, onResume) ==
    /\ <<isOpen, d, onResume>> # <<modal.isOpen, modal.depositData, modal.onResume>>
    /\ Commit([modal EXCEPT !.isOpen = isOpen, !.depositData = d, !.onResume = onResume])

\* parseUnits(amountInput.trim(), decimals) throws
InvalidAmount(input) == input # <<>> /\ \E i \in 1..Len(input) : ~IsDigit(input[i])

\* the user presses the deposit button: handleDeposit up to the wallet call
HandleDeposit(input) ==
    /\ modal.isOpen /\ IsSome(modal.depositData)
    /\ modal.step = "idle" /\ ~IsConfirming(modal)
    /\ modal.attempts < MaxDeposits
    /\ LET data == Val(modal.depositData)
           m == [modal EXCEPT !.attempts = @ + 1]
       IN  IF InvalidAmount(input) \/ (~data.isNative /\ ~IsSome(data.tokenAddress))
           THEN Commit(m)
           ELSE Commit([m EXCEPT !.step = "sending"])

\* sendTransactionAsync / writeContractAsync rejects: the catch shows a toast
DepositRejected ==
    /\ modal.step = "sending"
    /\ Commit([modal EXCEPT !.step = "idle"])

\* the wallet returns txHash: setPendingHash(txHash), with setHasResumed(false)
\* in the same render or in the next one
DepositSubmitted(batched) ==
    /\ modal.step = "sending"
    /\ LET txHash == Len(modal.receipts) + 1
           m == [modal EXCEPT !.receipts = Append(@, "pending"),
                              !.pendingHash = Some(txHash)]
       IN  IF batched THEN Commit([m EXCEPT !.hasResumed = FALSE, !.step = "idle"])
           ELSE Commit([m EXCEPT !.step = "flag"])

\* setHasResumed(false), rendered on its own
DepositFlag ==
    /\ modal.step = "flag"
    /\ Commit([modal EXCEPT !.hasResumed = FALSE, !.step = "idle"])

\* the receipt of a submitted transaction arrives: mined or reverted
Receipt(hash, status) ==
    /\ hash \in DOMAIN modal.receipts
    /\ modal.receipts[hash] = "pending"
    /\ Commit([modal EXCEPT !.receipts[hash] = status])

NextModal ==
    \/ \E isOpen \in BOOLEAN, d \in DepositDatas, r \in BOOLEAN : ShowModal(isOpen, Some(d), r)
    \/ \E input \in AmountInputs : HandleDeposit(input)
    \/ DepositRejected
    \/ \E batched \in BOOLEAN : DepositSubmitted(batched)
    \/ DepositFlag
    \/ \E hash \in 1..MaxDeposits, status \in {"success", "reverted"} : Receipt(hash, status)
SpecModal == Init /\ [][NextModal]_vars

\* C40: every call onResume(workflowId, jobId) of the modal was made for a
\* submitted deposit whose receipt reports success, never for a reverted or
\* pending one, with the workflowId and the jobId of a depositData that has
\* both; no two calls were made for the same deposit, and a deposit the
\* wallet rejected has no hash for which a call could be made.
C40_ResumeOncePerConfirmedDeposit ==
    /\ \A i \in 1..Len(modal.resumes) :
          LET call == modal.resumes[i] IN
          /\ call.hash \in DOMAIN modal.receipts
          /\ modal.receipts[call.hash] = "success"
          /\ IsSome(call.workflowId) /\ IsSome(call.jobId)
          /\ \A j \in 1..Len(modal.resumes) : modal.resumes[j].hash = call.hash => j = i
    /\ Len(modal.receipts) <= modal.attempts
    /\ Len(modal.resumes) <= modal.closes

\* three deposits: one rejected by the wallet, one reverted, one confirmed
\* and resumed
C40_Witness ==
    /\ modal.attempts = 3
    /\ modal.step = "idle"
    /\ modal.receipts = <<"reverted", "success">>
    /\ Len(modal.resumes) = 1
    /\ modal.resumes[1].hash = 2
    /\ modal.pendingHash = Null

=============================================================================
